---- MODULE Spec2Model ----
(***************************************************************************)
(* GGSelChatMonitor (src/GGSelChatMonitor-Complete.js): the polling        *)
(* monitor that keeps an invoice watermark, a chat count and a message     *)
(* watermark per chat, and calls onNewOrder / onNewChat / onNewMessage.    *)
(*                                                                         *)
(* Every await of the source is a point where an asynchronous activation   *)
(* is suspended: the code between two awaits is one atomic action.  An     *)
(* await of a value that is already there (a cache hit) suspends nothing   *)
(* that another callback could interleave with, and is part of the action. *)
(* The remote API, the token provider and the handlers are the             *)
(* environment: each response and each handler outcome is an input of the  *)
(* action that consumes it.  The token module (src/unnamed/part_000) and   *)
(* the handlers of src/TelegramNotifier.js are modelled on their own, in   *)
(* SpecToken and SpecTelegram.                                             *)
(***************************************************************************)
EXTENDS Integers, Sequences, FiniteSets, TLC

VARIABLES
    isRunning,          \* this.isRunning
    isInitialized,      \* this.isInitialized
    lastChatCount,      \* this.lastChatCount
    lastMessageIds,     \* this.lastMessageIds   (Map: chat id_i -> message id)
    productCache,       \* this.productCache     (Map: product id -> name)
    invoiceCache,       \* this.invoiceCache     (Map: invoice id -> invoice data)
    lastSaleInvoiceId,  \* this.lastSaleInvoiceId (Null or an invoice id)
    task,               \* the asynchronous activations: start()/poll() chains
    out,                \* history: the handler calls made by the last action
    last,               \* history: the last action, its activation, a throw
    hist,               \* history: of each activation's poll cycle
    instance,           \* the options given to the constructor, and its outcome
    tokenCache,         \* tokenCache of the token module (token, timestamp)
    now,                \* Date.now()
    login               \* the getToken call of the token module, if one is in flight

vars == <<isRunning, isInitialized, lastChatCount, lastMessageIds, productCache,
          invoiceCache, lastSaleInvoiceId, task, out, last, hist, instance,
          tokenCache, now, login>>

----------------------------------------------------------------------------
\* Bounds of the model.

\* Activations (start()/poll() chains) that can exist at once.
MaxTasks == 2
\* Invoice ids are 1..MaxInvoice.
MaxInvoice == 3
\* Chat ids (id_i, an order number) are 1..MaxChat.
MaxChat == 2
\* Message ids are 1..MaxMsg.
MaxMsg == 3
\* Longest sales list of a response.
MaxSalesLen == 3
\* Invoice ids of the specifications that keep the sales lists small.
FewInvoices == 2
\* Longest sales and message lists of the specification with interleaved
\* activations.
ShortLen == 1

\* lastSaleInvoiceId before the first sale is seen (null in the source).
Null == -1

Tasks == 1..MaxTasks
InvoiceIds == 1..MaxInvoice
ChatIds == 1..MaxChat
MsgIds == 1..MaxMsg

----------------------------------------------------------------------------
\* Helpers over sequences and Maps.

Range(s) == {s[x] : x \in DOMAIN s}

\* The duplicate-free sequences over S of length at most n.
SeqsNoDup(S, n) ==
    {s \in UNION {[1..m -> S] : m \in 0..n} :
        \A a, b \in DOMAIN s : a # b => s[a] # s[b]}

\* Map.set(k, v)
MapSet(m, k, v) == [x \in (DOMAIN m) \cup {k} |-> IF x = k THEN v ELSE m[x]]

EmptyMap == [x \in {} |-> 0]

\* A mutant of MaxOf: the first entry is taken for the highest.
MaxOfFirst(s) == s[1]

\* Math.max(...list) of a non-empty list.
MaxOf(s) == CHOOSE x \in Range(s) : \A y \in Range(s) : y <= x

\* A mutant of SortAsc: the list is left in the order the API gave it.
SortAscNoSort(s) == s

\* Array.prototype.sort((a, b) => a.id - b.id): ascending by id.
RECURSIVE SortAsc(_)
SortAsc(s) ==
    IF Len(s) <= 1 THEN s
    ELSE LET x == s[Len(s)]
             r == SortAsc(SubSeq(s, 1, Len(s) - 1))
             p == Cardinality({q \in DOMAIN r : r[q] <= x})
         IN  SubSeq(r, 1, p) \o <<x>> \o SubSeq(r, p + 1, Len(r))

\* A mutant of NewerThan: ids equal to the watermark count as new.
NewerThanOrEqual(s, w) == SelectSeq(s, LAMBDA x : x >= w)

\* The entries of s with id greater than the watermark w, in list order
\* (the loop of checkNewOrders, the filter of the message pass).
NewerThan(s, w) == SelectSeq(s, LAMBDA x : x > w)

----------------------------------------------------------------------------
\* Events: the arguments of a handler call.

\* onNewOrder(sale): sale.invoice_id, sale.buyer_email, sale.order_amount.
NewOrder(id, entry) ==
    [kind |-> "NewOrder", id |-> id, msgs |-> <<>>,
     email |-> entry.email, amount |-> entry.amount, product |-> "n/a"]

\* onNewChat(chat, productName)
NewChat(id, email, product) ==
    [kind |-> "NewChat", id |-> id, msgs |-> <<>>,
     email |-> email, amount |-> FALSE, product |-> product]

\* onNewMessage(chat, messages.length, messages, productName)
NewMessages(id, msgs, email, product) ==
    [kind |-> "NewMessages", id |-> id, msgs |-> msgs,
     email |-> email, amount |-> FALSE, product |-> product]

----------------------------------------------------------------------------
\* An activation: where it is suspended (pc) and its local variables.

IdleTask ==
    [pc |-> "idle",
     sales |-> <<>>,      \* checkNewOrders: sales (invoice ids as fetched)
     newSales |-> <<>>,   \* checkNewOrders: newSales, sorted
     k |-> 0,             \* checkNewOrders: position in newSales
     chats |-> <<>>,      \* poll / start: chats (id_i of each entry)
     n |-> 0,             \* poll: newChatsCount
     j |-> 0,             \* poll: position in newChats; start: position in chats
     i |-> 0,             \* poll: position in chats (message pass)
     prod |-> "null",     \* poll: productName
     email |-> FALSE,     \* poll: chat.email is set
     all |-> <<>>,        \* poll: allMessages of the chat at hand, sorted
     newMsgs |-> <<>>,    \* poll: newMessages of the chat at hand
     known |-> Null]      \* poll: lastKnownMessageId of the chat at hand

\* The history of an activation's poll cycle.
NoHist ==
    [w0 |-> Null,         \* lastSaleInvoiceId when the cycle began
     m0 |-> EmptyMap,     \* lastMessageIds when the cycle began
     c0 |-> 0,            \* lastChatCount when the cycle began
     i0 |-> FALSE,        \* isInitialized when the cycle began
     ins |-> <<>>,        \* the responses the cycle consumed so far
     rsp |-> <<>>,        \* the response the last step consumed
     log |-> <<>>,        \* the handler calls of the cycle so far
     seen |-> {},         \* the chats (id_i) of the chat lists fetched since start()
     seen0 |-> {},        \* the same when the cycle began
     send |-> "",         \* what became of the Telegram send of the last handler calls
     pend |-> {}]         \* the sales above the watermark seen before isInitialized

\* The token module (src/unnamed/part_000).

\* MAX_RETRIES (line 5).
MAX_RETRIES == 3

\* TOKEN_VALIDITY_DURATION (line 7), in ticks of the model's clock.
TOKEN_VALIDITY_DURATION == 2

\* The first and the last reading of the clock, and the tokens the login
\* endpoint hands out.
StartTime == 1
MaxTime == 5
MaxToken == 2
Tokens == 1..MaxToken

\* tokenCache as the module creates it (lines 10-13), null being Null.
NoToken == [token |-> Null, timestamp |-> Null]

\* No getToken call in flight and none made yet.  Of a call: pc is where it
\* is suspended, attempt the attempt of makeRequestWithRetry, sent the
\* requests issued, outcome what the last request brought, req whether
\* the promise of makeRequestWithRetry is pending, resolved or rejected,
\* res how the call ended with ret the token returned, and cache0 the
\* cache when it was made.
NoOutcome == [kind |-> "none", code |-> "", token |-> Null]

NoLogin ==
    [pc |-> "idle", attempt |-> 0, sent |-> 0, outcome |-> NoOutcome,
     req |-> "none", res |-> "none", ret |-> Null, cache0 |-> NoToken]

\* The handler options of the constructor (lines 17-19).
HandlerOptions == {"onNewChat", "onNewMessage", "onNewOrder"}

\* A default handler called by the constructor, lines 31-66: its first
\* statement is this.logger.log(...), a TypeError while this.logger is
\* undefined; when it returns, it returns undefined.
DefaultHandlerCall(hasLogger) == IF hasLogger THEN "undefined" ELSE "TypeError"

\* What lines 17-19 assign for the option o when the options opts are
\* given: options[o] when given, or else the result of the call
\* this.default...Handler(this), made before this.logger is assigned
\* (line 22).
Installed(o, opts) == IF o \in opts THEN "given" ELSE DefaultHandlerCall(FALSE)

\* The instance after a constructor call that returned, and after one that
\* threw.
Built(opts) == [options |-> opts, state |-> "built"]
Threw(opts) == [options |-> opts, state |-> "threw"]

\* new GGSelChatMonitor(options), lines 6-28.
Constructor(opts) ==
    IF \E o \in HandlerOptions : Installed(o, opts) = "TypeError"
    THEN Threw(opts)
    ELSE Built(opts)

\* The product a chat is about (chat.product): chats 1 and 2 share product 1.
ProductOf(c) == (c + 1) \div 2

Init ==
    /\ isRunning = FALSE
    /\ isInitialized = FALSE
    /\ lastChatCount = 0
    /\ lastMessageIds = EmptyMap
    /\ productCache = EmptyMap
    /\ invoiceCache = EmptyMap
    /\ lastSaleInvoiceId = Null
    /\ task = [t \in Tasks |-> IdleTask]
    /\ out = <<>>
    /\ last = [op |-> "new", t |-> 0, threw |-> FALSE]
    /\ hist = [t \in Tasks |-> NoHist]
    /\ instance = Built(HandlerOptions)
    /\ tokenCache = NoToken
    /\ now = StartTime
    /\ login = NoLogin

----------------------------------------------------------------------------
\* The effect of the code between two awaits, computed on a record S:
\*   tk      the activation's locals after the code ran,
\*   w, cc, mids, pcache, icache, init
\*           lastSaleInvoiceId, lastChatCount, lastMessageIds, productCache,
\*           invoiceCache, isInitialized,
\*   ev      the handler calls made, in order,
\*   th      the input "the th-th handler call from here throws" (0: none),
\*   thrown  the last handler call threw,
\*   threw   a handler call threw.

Cur(t, th) ==
    [tk |-> task[t], w |-> lastSaleInvoiceId, cc |-> lastChatCount,
     mids |-> lastMessageIds, pcache |-> productCache, icache |-> invoiceCache,
     init |-> isInitialized, ev |-> <<>>, th |-> th, thrown |-> FALSE,
     threw |-> FALSE]

\* A handler call this.onNewOrder / onNewChat / onNewMessage with arguments e.
Emit(S, e) ==
    [S EXCEPT !.ev = Append(@, e),
              !.thrown = (S.th = 1),
              !.threw = (@ \/ S.th = 1),
              !.th = IF @ > 1 THEN @ - 1 ELSE 0]

\* The locals of an activation that goes on in the same cycle at pc.
At(tk, pc) == [tk EXCEPT !.pc = pc]

\* A mutant of EnterPoll: poll() has no guard on isRunning.
EnterPollNoGuard(S) == [S EXCEPT !.tk = At(IdleTask, "poll_token")]

\* poll(), lines 404-408: the guard on isRunning, then the await of getToken.
\* A cycle begins here.
EnterPoll(S) ==
    [S EXCEPT !.tk = IF isRunning THEN At(IdleTask, "poll_token") ELSE IdleTask]

\* A mutant of Finish: the next cycle is scheduled whether or not the
\* monitor is still running.
FinishAlwaysSchedule(S) ==
    [S EXCEPT !.init = TRUE, !.tk = At(IdleTask, "timer")]

\* poll(), lines 575-584: isInitialized is set and the next cycle is
\* scheduled with setTimeout when the monitor is still running.
Finish(S) ==
    [S EXCEPT !.init = TRUE,
              !.tk = IF isRunning THEN At(IdleTask, "timer") ELSE IdleTask]

\* The locals when the message pass moves to chat i (the locals of the chat
\* before are dead).
MdLocals(tk, i) ==
    [tk EXCEPT !.i = i, !.j = 0, !.n = 0, !.prod = "null", !.email = FALSE,
               !.all = <<>>, !.newMsgs = <<>>, !.known = Null]

\* A mutant of MdNext: lastChatCount is left as it was at the end of a cycle.
MdNextKeepCount(S) ==
    IF S.tk.i > Len(S.tk.chats)
    THEN Finish(S)
    ELSE [S EXCEPT !.tk = At(S.tk, "md_msgs")]

\* poll(), lines 496-502 and 568-569: the message pass awaits fetchMessages
\* for chat i; after the last chat lastChatCount is overwritten and the
\* cycle finishes.
MdNext(S) ==
    IF S.tk.i > Len(S.tk.chats)
    THEN Finish([S EXCEPT !.cc = Len(S.tk.chats)])
    ELSE [S EXCEPT !.tk = At(S.tk, "md_msgs")]

\* The message pass goes on with the next chat (continue, or the end of the
\* loop body, or the catch of lines 560-562).
MdContinue(S) == MdNext([S EXCEPT !.tk = MdLocals(S.tk, S.tk.i + 1)])

\* A mutant of MdEmit: the watermark is advanced although the handler threw.
MdEmitAdvanceAnyway(S) ==
    LET c  == S.tk.chats[S.tk.i]
        S1 == Emit(S, NewMessages(c, S.tk.newMsgs, S.tk.email, S.tk.prod))
    IN  MdContinue([S1 EXCEPT !.thrown = FALSE,
                              !.mids = MapSet(@, c, S.tk.all[Len(S.tk.all)])])

\* poll(), lines 552-556: onNewMessage with the new messages, then the
\* watermark is set to latestMessageId; a throw is caught at line 560.
MdEmit(S) ==
    LET c  == S.tk.chats[S.tk.i]
        S1 == Emit(S, NewMessages(c, S.tk.newMsgs, S.tk.email, S.tk.prod))
    IN  IF S1.thrown
        THEN MdContinue([S1 EXCEPT !.thrown = FALSE])
        ELSE MdContinue([S1 EXCEPT !.mids = MapSet(@, c, S.tk.all[Len(S.tk.all)])])

\* getChatBuyerEmail, lines 155-163: a cached entry with an email is
\* returned, anything else awaits fetchInvoiceDetails.
HasCachedEmail(icache, c) == c \in DOMAIN icache /\ icache[c].email

\* poll(), line 544: getChatBuyerEmail in the message pass.
MdEmail(S) ==
    IF HasCachedEmail(S.icache, S.tk.chats[S.tk.i])
    THEN MdEmit([S EXCEPT !.tk.email = TRUE])
    ELSE [S EXCEPT !.tk = At(S.tk, "md_email")]

\* poll(), lines 536-541: fetchProduct in the message pass; a cached name is
\* returned with no request (lines 182-184).
MdProduct(S) ==
    LET p == ProductOf(S.tk.chats[S.tk.i])
    IN  IF p \in DOMAIN S.pcache
        THEN MdEmail([S EXCEPT !.tk.prod = S.pcache[p]])
        ELSE [S EXCEPT !.tk = At(S.tk, "md_product")]

\* fetchProduct, lines 197-213, on the response r: a success stores and
\* returns the name (or "Product <id>" when the body has none); a failure
\* rejects, which the callers catch, leaving productName null.
ProductName(r) ==
    IF r.st = "ok" THEN (IF r.named THEN "name" ELSE "Product id") ELSE "null"

ProductCacheAfter(pcache, p, r) ==
    IF r.st = "ok" THEN MapSet(pcache, p, ProductName(r)) ELSE pcache

\* getChatBuyerEmail, lines 162-176, on the response r of
\* fetchInvoiceDetails: a success caches {invoice_id, buyer_email}, a failure
\* caches nothing and returns null.
ChatInvoiceCacheAfter(icache, c, r) ==
    IF r.st = "ok"
    THEN MapSet(icache, c, [email |-> r.email, amount |-> FALSE, src |-> "chat"])
    ELSE icache

ChatEmail(r) == r.st = "ok" /\ r.email

\* A mutant of MdMsgs: a latest id equal to the watermark counts as new.
MdMsgsAtLeast(S, r) ==
    IF r.st = "fail" \/ r.list = <<>>
    THEN MdContinue(S)
    ELSE LET all    == SortAsc(r.list)
             latest == all[Len(all)]
             c      == S.tk.chats[S.tk.i]
         IN  IF c \notin DOMAIN S.mids
             THEN MdContinue([S EXCEPT !.mids = MapSet(@, c, latest)])
             ELSE IF latest >= S.mids[c]
                  THEN MdProduct([S EXCEPT !.tk.all = all,
                                           !.tk.known = S.mids[c],
                                           !.tk.newMsgs = NewerThan(all, S.mids[c])])
                  ELSE MdContinue(S)

\* A mutant of MdMsgs: a message fetch that fails ends the message pass.
MdMsgsAbortOnFailure(S, r) ==
    IF r.st = "fail"
    THEN Finish(S)
    ELSE IF r.list = <<>>
         THEN MdContinue(S)
         ELSE LET all    == SortAsc(r.list)
                  latest == all[Len(all)]
                  c      == S.tk.chats[S.tk.i]
              IN  IF c \notin DOMAIN S.mids
                  THEN MdContinue([S EXCEPT !.mids = MapSet(@, c, latest)])
                  ELSE IF latest > S.mids[c]
                       THEN MdProduct([S EXCEPT !.tk.all = all,
                                                !.tk.known = S.mids[c],
                                                !.tk.newMsgs = NewerThan(all, S.mids[c])])
                       ELSE MdContinue(S)

\* A mutant of MdMsgs: a chat without a watermark is compared against 0, so
\* that its whole history is reported.
MdMsgsNoColdStart(S, r) ==
    IF r.st = "fail" \/ r.list = <<>>
    THEN MdContinue(S)
    ELSE LET all    == SortAsc(r.list)
             latest == all[Len(all)]
             c      == S.tk.chats[S.tk.i]
             known  == IF c \in DOMAIN S.mids THEN S.mids[c] ELSE 0
         IN  IF latest > known
             THEN MdProduct([S EXCEPT !.tk.all = all,
                                      !.tk.known = known,
                                      !.tk.newMsgs = NewerThan(all, known)])
             ELSE MdContinue(S)

\* poll(), lines 502-558, on the response r of fetchMessages for chat i.
MdMsgs(S, r) ==
    IF r.st = "fail" \/ r.list = <<>>
    THEN MdContinue(S)
    ELSE LET all    == SortAsc(r.list)
             latest == all[Len(all)]
             c      == S.tk.chats[S.tk.i]
         IN  IF c \notin DOMAIN S.mids
             THEN MdContinue([S EXCEPT !.mids = MapSet(@, c, latest)])
             ELSE IF latest > S.mids[c]
                  THEN MdProduct([S EXCEPT !.tk.all = all,
                                           !.tk.known = S.mids[c],
                                           !.tk.newMsgs = NewerThan(all, S.mids[c])])
                  ELSE MdContinue(S)

\* The locals when the new-chat pass moves to new chat j.
NcLocals(tk, j) == [tk EXCEPT !.j = j, !.prod = "null", !.email = FALSE]

\* poll(), line 447: getChatBuyerEmail in the new-chat pass, then the await
\* of fetchMessages (line 456).
NcEmail(S) ==
    IF HasCachedEmail(S.icache, S.tk.chats[S.tk.j])
    THEN [S EXCEPT !.tk = [At(S.tk, "nc_msgs") EXCEPT !.email = TRUE]]
    ELSE [S EXCEPT !.tk = At(S.tk, "nc_email")]

\* poll(), lines 439-444: fetchProduct in the new-chat pass.
NcProduct(S) ==
    LET p == ProductOf(S.tk.chats[S.tk.j])
    IN  IF p \in DOMAIN S.pcache
        THEN NcEmail([S EXCEPT !.tk.prod = S.pcache[p]])
        ELSE [S EXCEPT !.tk = At(S.tk, "nc_product")]

\* poll(), lines 433 and 486-496: the next new chat, or the message pass.
NcNext(S) ==
    IF S.tk.j + 1 <= S.tk.n
    THEN NcProduct([S EXCEPT !.tk = NcLocals(S.tk, S.tk.j + 1)])
    ELSE MdNext([S EXCEPT !.tk = MdLocals(S.tk, 1)])

\* A mutant of NcMsgs: the watermark of a new chat is seeded with 0 although
\* its history was reported.
NcMsgsSeedsZero(S, r) ==
    LET c       == S.tk.chats[S.tk.j]
        initial == IF r.st = "ok" /\ r.list # <<>> THEN SortAsc(r.list) ELSE <<>>
        S1      == Emit(S, NewChat(c, S.tk.email, S.tk.prod))
        S2      == Emit(S1, NewMessages(c, initial, S.tk.email, S.tk.prod))
    IN  IF S1.thrown
        THEN Finish([S1 EXCEPT !.thrown = FALSE])
        ELSE IF initial # <<>>
             THEN IF S2.thrown
                  THEN Finish([S2 EXCEPT !.thrown = FALSE])
                  ELSE NcNext([S2 EXCEPT !.mids = MapSet(@, c, 0)])
             ELSE NcNext([S1 EXCEPT !.mids = MapSet(@, c, 0)])

\* A mutant of NcMsgs: the history of a new chat is passed on as fetched.
NcMsgsAsFetched(S, r) ==
    LET c       == S.tk.chats[S.tk.j]
        initial == IF r.st = "ok" /\ r.list # <<>> THEN r.list ELSE <<>>
        S1      == Emit(S, NewChat(c, S.tk.email, S.tk.prod))
        S2      == Emit(S1, NewMessages(c, initial, S.tk.email, S.tk.prod))
    IN  IF S1.thrown
        THEN Finish([S1 EXCEPT !.thrown = FALSE])
        ELSE IF initial # <<>>
             THEN IF S2.thrown
                  THEN Finish([S2 EXCEPT !.thrown = FALSE])
                  ELSE NcNext([S2 EXCEPT
                                 !.mids = MapSet(@, c, initial[Len(initial)])])
             ELSE NcNext([S1 EXCEPT !.mids = MapSet(@, c, 0)])

\* poll(), lines 456-485, on the response r of fetchMessages for new chat j:
\* onNewChat, then onNewMessage with the whole history when there is one,
\* and the watermark of the chat is set.  A throw of a handler leaves the
\* try block of poll (line 571).
NcMsgs(S, r) ==
    LET c       == S.tk.chats[S.tk.j]
        initial == IF r.st = "ok" /\ r.list # <<>> THEN SortAsc(r.list) ELSE <<>>
        S1      == Emit(S, NewChat(c, S.tk.email, S.tk.prod))
        S2      == Emit(S1, NewMessages(c, initial, S.tk.email, S.tk.prod))
    IN  IF S1.thrown
        THEN Finish([S1 EXCEPT !.thrown = FALSE])
        ELSE IF initial # <<>>
             THEN IF S2.thrown
                  THEN Finish([S2 EXCEPT !.thrown = FALSE])
                  ELSE NcNext([S2 EXCEPT
                                 !.mids = MapSet(@, c, initial[Len(initial)])])
             ELSE NcNext([S1 EXCEPT !.mids = MapSet(@, c, 0)])

\* A mutant of ChatsDone: every growth of the list counts as new chats,
\* also from a count of 0.
ChatsDoneNoZeroGuard(S, r) ==
    IF r.st = "fail"
    THEN Finish(S)
    ELSE LET tk1 == [S.tk EXCEPT !.chats = r.list]
         IN  IF Len(r.list) > S.cc
             THEN NcProduct([S EXCEPT !.tk = [tk1 EXCEPT !.n = Len(r.list) - S.cc,
                                                         !.j = 1]])
             ELSE MdNext([S EXCEPT !.tk = MdLocals(tk1, 1)])

\* A mutant of ChatsDone: a chat-list fetch that fails ends the polling.
ChatsDoneStopOnFailure(S, r) ==
    IF r.st = "fail"
    THEN [S EXCEPT !.init = TRUE, !.tk = IdleTask]
    ELSE LET tk1 == [S.tk EXCEPT !.chats = r.list]
         IN  IF S.cc > 0 /\ Len(r.list) > S.cc
             THEN NcProduct([S EXCEPT !.tk = [tk1 EXCEPT !.n = Len(r.list) - S.cc,
                                                         !.j = 1]])
             ELSE MdNext([S EXCEPT !.tk = MdLocals(tk1, 1)])

\* poll(), lines 414-433, on the response r of fetchChats: a failure leaves
\* the try block; a list longer than lastChatCount > 0 makes its first
\* entries new chats.
ChatsDone(S, r) ==
    IF r.st = "fail"
    THEN Finish(S)
    ELSE LET tk1 == [S.tk EXCEPT !.chats = r.list]
         IN  IF S.cc > 0 /\ Len(r.list) > S.cc
             THEN NcProduct([S EXCEPT !.tk = [tk1 EXCEPT !.n = Len(r.list) - S.cc,
                                                         !.j = 1]])
             ELSE MdNext([S EXCEPT !.tk = MdLocals(tk1, 1)])

\* checkNewOrders returns (or its catch, line 398, has run): poll awaits
\* fetchChats (line 414).
GotoChats(S) ==
    [S EXCEPT !.thrown = FALSE,
              !.tk = [At(S.tk, "chats") EXCEPT !.sales = <<>>, !.newSales = <<>>,
                                               !.k = 0]]

\* A mutant of OrdersDone: the watermark becomes the id of the first entry
\* of the fetched list (sales[0]) instead of the highest new id.
OrdersDoneFirstOfList(S) == GotoChats([S EXCEPT !.w = S.tk.sales[1]])

\* checkNewOrders, lines 390-393: after the loop the watermark becomes the
\* highest invoice id of newSales.
OrdersDone(S) == GotoChats([S EXCEPT !.w = MaxOf(S.tk.newSales)])

\* checkNewOrders, lines 326-388: the loop over newSales from position k.
\* A sale with no invoiceCache entry awaits fetchInvoiceDetails; a cached
\* one is passed to onNewOrder at once; a throw goes to the catch (line 398).
RECURSIVE OrdersLoop(_)
OrdersLoop(S) ==
    IF S.tk.k > Len(S.tk.newSales)
    THEN OrdersDone(S)
    ELSE LET s == S.tk.newSales[S.tk.k]
         IN  IF s \notin DOMAIN S.icache
             THEN [S EXCEPT !.tk = At(S.tk, "inv")]
             ELSE LET S1 == Emit(S, NewOrder(s, S.icache[s]))
                  IN  IF S1.thrown
                      THEN GotoChats(S1)
                      ELSE OrdersLoop([S1 EXCEPT !.tk.k = @ + 1])

\* checkNewOrders, lines 338-376, on the response r of fetchInvoiceDetails
\* for newSales[k]: the entry is cached whether or not the fetch failed.
OrderInvoiceEntry(r) ==
    IF r.st = "ok"
    THEN [email |-> r.email, amount |-> r.amount, src |-> "order"]
    ELSE [email |-> FALSE, amount |-> FALSE, src |-> "order"]

\* A mutant of InvDone: a sale whose invoice details could not be fetched is
\* skipped.
InvDoneSkipOnFailure(S, r) ==
    IF r.st = "ok"
    THEN OrdersLoop([S EXCEPT
                       !.icache = MapSet(@, S.tk.newSales[S.tk.k], OrderInvoiceEntry(r))])
    ELSE OrdersLoop([S EXCEPT !.tk.k = @ + 1])

\* A mutant of InvDone: a failed fetch of the invoice details ends the batch.
InvDoneStopOnFailure(S, r) ==
    IF r.st = "ok"
    THEN OrdersLoop([S EXCEPT
                       !.icache = MapSet(@, S.tk.newSales[S.tk.k], OrderInvoiceEntry(r))])
    ELSE GotoChats(S)

\* checkNewOrders, lines 337-388, on the response r of fetchInvoiceDetails
\* for newSales[k]: the entry is stored in invoiceCache and the loop goes on
\* with the call of onNewOrder for this sale.
InvDone(S, r) ==
    OrdersLoop([S EXCEPT
                  !.icache = MapSet(@, S.tk.newSales[S.tk.k], OrderInvoiceEntry(r))])

\* A mutant of SalesDone: new sales are reported during the first cycle too.
SalesDoneNoInitGuard(S, r) ==
    IF r.st # "ok" \/ r.list = <<>>
    THEN GotoChats(S)
    ELSE IF S.w = Null
         THEN GotoChats([S EXCEPT !.w = MaxOf(r.list)])
         ELSE IF MaxOf(r.list) > S.w
              THEN OrdersLoop([S EXCEPT
                                 !.tk.sales = r.list,
                                 !.tk.newSales = SortAsc(NewerThan(r.list, S.w)),
                                 !.tk.k = 1])
              ELSE GotoChats(S)

\* A mutant of SalesDone: a sales fetch that fails ends the cycle.
SalesDoneAbortOnFailure(S, r) ==
    IF r.st # "ok"
    THEN Finish(S)
    ELSE IF r.list = <<>>
         THEN GotoChats(S)
         ELSE IF S.w = Null
              THEN GotoChats([S EXCEPT !.w = MaxOf(r.list)])
              ELSE IF S.init /\ MaxOf(r.list) > S.w
                   THEN OrdersLoop([S EXCEPT
                                      !.tk.sales = r.list,
                                      !.tk.newSales = SortAsc(NewerThan(r.list, S.w)),
                                      !.tk.k = 1])
                   ELSE GotoChats(S)

\* A mutant of SalesDone: a soft error or an empty sales list clears the
\* watermark.
SalesDoneSoftClears(S, r) ==
    IF r.st # "ok" \/ r.list = <<>>
    THEN GotoChats([S EXCEPT !.w = IF r.st = "fail" THEN @ ELSE Null])
    ELSE IF S.w = Null
         THEN GotoChats([S EXCEPT !.w = MaxOf(r.list)])
         ELSE IF S.init /\ MaxOf(r.list) > S.w
              THEN OrdersLoop([S EXCEPT
                                 !.tk.sales = r.list,
                                 !.tk.newSales = SortAsc(NewerThan(r.list, S.w)),
                                 !.tk.k = 1])
              ELSE GotoChats(S)

\* A mutant of SalesDone: the first cycle, which reports nothing, moves the
\* watermark to the newest sale of its list.
SalesDoneFirstCycleAdvances(S, r) ==
    IF r.st # "ok" \/ r.list = <<>>
    THEN GotoChats(S)
    ELSE IF S.w = Null \/ (~S.init /\ MaxOf(r.list) > S.w)
         THEN GotoChats([S EXCEPT !.w = MaxOf(r.list)])
         ELSE IF S.init /\ MaxOf(r.list) > S.w
              THEN OrdersLoop([S EXCEPT
                                 !.tk.sales = r.list,
                                 !.tk.newSales = SortAsc(NewerThan(r.list, S.w)),
                                 !.tk.k = 1])
              ELSE GotoChats(S)

\* checkNewOrders, lines 276-324, on the response r of fetchLastSales(20):
\* a transport failure (caught), a soft error and an empty list change
\* nothing; a null watermark is initialized; after the first cycle the sales
\* above the watermark are sorted and reported.
SalesDone(S, r) ==
    IF r.st # "ok" \/ r.list = <<>>
    THEN GotoChats(S)
    ELSE IF S.w = Null
         THEN GotoChats([S EXCEPT !.w = MaxOf(r.list)])
         ELSE IF S.init /\ MaxOf(r.list) > S.w
              THEN OrdersLoop([S EXCEPT
                                 !.tk.sales = r.list,
                                 !.tk.newSales = SortAsc(NewerThan(r.list, S.w)),
                                 !.tk.k = 1])
              ELSE GotoChats(S)

\* start(), lines 618-638: the loop that preloads the product names (a
\* cached name needs no request), then the call of poll().
RECURSIVE StartLoop(_)
StartLoop(S) ==
    IF S.tk.j > Len(S.tk.chats)
    THEN EnterPoll(S)
    ELSE IF ProductOf(S.tk.chats[S.tk.j]) \in DOMAIN S.pcache
         THEN StartLoop([S EXCEPT !.tk.j = @ + 1])
         ELSE [S EXCEPT !.tk = At(S.tk, "start_product")]

\* start(), lines 622-626, on the response r of fetchProduct: errors are
\* ignored.
StartProductDone(S, r) ==
    StartLoop([S EXCEPT
                 !.pcache = ProductCacheAfter(@, ProductOf(S.tk.chats[S.tk.j]), r),
                 !.tk.j = @ + 1])

\* A mutant of StartChatsDone: the chats of the startup list are announced.
StartChatsDoneAnnounce(S, r) ==
    IF r.st = "fail"
    THEN EnterPoll(S)
    ELSE StartLoop([S EXCEPT !.cc = Len(r.list),
                             !.ev = [i \in 1..Len(r.list) |->
                                        NewChat(r.list[i], "", "")],
                             !.tk = [S.tk EXCEPT !.chats = r.list, !.j = 1]])

\* start(), lines 612-615, on the response r of fetchChats: a failure goes
\* to the catch (line 633) and on to poll().
StartChatsDone(S, r) ==
    IF r.st = "fail"
    THEN EnterPoll(S)
    ELSE StartLoop([S EXCEPT !.cc = Len(r.list),
                             !.tk = [S.tk EXCEPT !.chats = r.list, !.j = 1]])

\* A mutant of StartSalesDone: the baseline is taken only when the
\* watermark is still null.
StartSalesDoneOnlyIfNull(S, r) ==
    IF r.st = "fail"
    THEN EnterPoll(S)
    ELSE [S EXCEPT !.w = IF r.st = "ok" /\ r.list # <<>> /\ S.w = Null
                         THEN r.list[1] ELSE @,
                   !.tk = At(S.tk, "start_chats")]

\* start(), lines 605-612, on the response r of fetchLastSales(token, 1):
\* the watermark becomes sales[0].invoice_id, whatever it was.
StartSalesDone(S, r) ==
    IF r.st = "fail"
    THEN EnterPoll(S)
    ELSE [S EXCEPT !.w = IF r.st = "ok" /\ r.list # <<>> THEN r.list[1] ELSE @,
                   !.tk = At(S.tk, "start_chats")]

----------------------------------------------------------------------------
\* The actions.

\* The variables after activation t ran from one await to the next.
Commit(t, S, op) ==
    /\ lastSaleInvoiceId' = S.w
    /\ lastChatCount' = S.cc
    /\ lastMessageIds' = S.mids
    /\ productCache' = S.pcache
    /\ invoiceCache' = S.icache
    /\ isInitialized' = S.init
    /\ task' = [task EXCEPT ![t] = S.tk]
    /\ out' = S.ev
    /\ last' = [op |-> op, t |-> t, threw |-> S.threw]
    /\ UNCHANGED <<isRunning, instance, tokenCache, now, login>>

\* The history kept by a specification.  H holds
\*   "snap" when the watermarks and flags at the beginning of each cycle are
\*          kept,
\*   "in"   when the responses a cycle consumed are,
\*   "resp" when the response of the last step is,
\*   "log"  when the handler calls of each cycle are,
\*   "noop" when the calls of start() and stop() that return at once are,
\*   "seen" when the chats of the chat lists fetched since start() are,
\*   "sent" or "failed" when the handlers are the ones of TelegramNotifier.js
\*          and the Telegram send of the step's handler calls succeeded or
\*          failed,
\*   "first" when the sales above the watermark that the first cycle (the
\*          one that runs while isInitialized is false) found in its sales
\*          list are.
\* x is the response the action consumed.  A cycle begins when poll()
\* passes its guard.
Hist(H, x) ==
    LET seen(t) ==
            IF "seen" \notin H \/ task'[t].pc \in {"idle", "start_token"}
            THEN {}
            ELSE IF last'.op \in {"start_chats", "chats"} /\ x.st = "ok"
                 THEN hist[t].seen \cup Range(x.list)
                 ELSE hist[t].seen
    IN
    hist' = [t \in Tasks |->
               IF last'.t # t
               THEN hist[t]
               ELSE IF task'[t].pc = "poll_token"
                    THEN [w0  |-> IF "snap" \in H THEN lastSaleInvoiceId' ELSE Null,
                          m0  |-> IF "snap" \in H THEN lastMessageIds' ELSE EmptyMap,
                          c0  |-> IF "snap" \in H THEN lastChatCount' ELSE 0,
                          i0  |-> IF "snap" \in H THEN isInitialized' ELSE FALSE,
                          ins |-> <<>>,
                          rsp |-> <<>>,
                          log |-> <<>>,
                          seen |-> seen(t),
                          seen0 |-> seen(t),
                          send |-> "",
                          pend |-> hist[t].pend]
                    ELSE IF task'[t].pc \in {"idle", "start_token", "start_sales",
                                             "start_chats", "start_product"}
                         THEN [NoHist EXCEPT !.seen = seen(t)]
                         ELSE [hist[t] EXCEPT
                                 !.seen = seen(t),
                                 !.pend = IF /\ "first" \in H
                                             /\ last'.op = "sales"
                                             /\ ~isInitialized
                                             /\ lastSaleInvoiceId # Null
                                             /\ x.st = "ok"
                                          THEN {s \in Range(x.list) :
                                                  s > lastSaleInvoiceId}
                                          ELSE @,
                                 !.send = IF out' = <<>> THEN ""
                                          ELSE IF "failed" \in H THEN "failed"
                                          ELSE IF "sent" \in H THEN "sent"
                                          ELSE "",
                                 !.ins = IF "in" \in H
                                         THEN Append(@, [op |-> last'.op, r |-> x])
                                         ELSE @,
                                 !.rsp = IF "resp" \in H THEN x ELSE <<>>,
                                 !.log = IF "log" \in H THEN @ \o out' ELSE @]]

FreeSlot(t) ==
    /\ task[t].pc = "idle"
    /\ \A u \in Tasks : u < t => task[u].pc # "idle"

\* start(), lines 588-602, called while the monitor is not running:
\* isRunning is set and getToken is awaited.
Start(t) ==
    /\ ~isRunning
    /\ FreeSlot(t)
    /\ isRunning' = TRUE
    /\ task' = [task EXCEPT ![t] = At(IdleTask, "start_token")]
    /\ out' = <<>>
    /\ last' = [op |-> "start", t |-> t, threw |-> FALSE]
    /\ UNCHANGED <<isInitialized, lastChatCount, lastMessageIds, productCache,
                   invoiceCache, lastSaleInvoiceId, instance, tokenCache, now,
                   login>>

\* A mutant of StartWhileRunning: the call takes the monitor back to its
\* state before the first cycle.
StartWhileRunningResets(mark) ==
    /\ isRunning
    /\ out' = IF mark THEN <<>> ELSE out
    /\ last' = IF mark THEN [op |-> "start_noop", t |-> 0, threw |-> FALSE] ELSE last
    /\ isInitialized' = FALSE
    /\ UNCHANGED <<isRunning, lastChatCount, lastMessageIds,
                   productCache, invoiceCache, lastSaleInvoiceId, task, hist,
                   instance, tokenCache, now, login>>

\* start(), lines 589-592, called while the monitor is running: it returns.
\* The call is recorded in the history when mark holds.
StartWhileRunning(mark) ==
    /\ isRunning
    /\ out' = IF mark THEN <<>> ELSE out
    /\ last' = IF mark THEN [op |-> "start_noop", t |-> 0, threw |-> FALSE] ELSE last
    /\ UNCHANGED <<isRunning, isInitialized, lastChatCount, lastMessageIds,
                   productCache, invoiceCache, lastSaleInvoiceId, task, hist,
                   instance, tokenCache, now, login>>

\* stop(), lines 648-649, called while the monitor is running.
Stop ==
    /\ isRunning
    /\ isRunning' = FALSE
    /\ out' = <<>>
    /\ last' = [op |-> "stop", t |-> 0, threw |-> FALSE]
    /\ UNCHANGED <<isInitialized, lastChatCount, lastMessageIds, productCache,
                   invoiceCache, lastSaleInvoiceId, task, instance, tokenCache,
                   now, login>>

\* stop(), lines 643-646, called while the monitor is not running.
StopWhileStopped(mark) ==
    /\ ~isRunning
    /\ out' = IF mark THEN <<>> ELSE out
    /\ last' = IF mark THEN [op |-> "stop_noop", t |-> 0, threw |-> FALSE] ELSE last
    /\ UNCHANGED <<isRunning, isInitialized, lastChatCount, lastMessageIds,
                   productCache, invoiceCache, lastSaleInvoiceId, task, hist,
                   instance, tokenCache, now, login>>

\* The callback of setTimeout (line 583) calls poll().
TimerFire(t) ==
    /\ task[t].pc = "timer"
    /\ Commit(t, EnterPoll(Cur(t, 0)), "timer")

\* start(): getToken returns or throws (lines 602, 633).
StartTokenReturn(t, ok) ==
    /\ task[t].pc = "start_token"
    /\ Commit(t, IF ok THEN [Cur(t, 0) EXCEPT !.tk = At(task[t], "start_sales")]
                 ELSE EnterPoll(Cur(t, 0)),
              "start_token")

StartSalesReturn(t, r) ==
    /\ task[t].pc = "start_sales"
    /\ Commit(t, StartSalesDone(Cur(t, 0), r), "start_sales")

StartChatsReturn(t, r) ==
    /\ task[t].pc = "start_chats"
    /\ Commit(t, StartChatsDone(Cur(t, 0), r), "start_chats")

StartProductReturn(t, r) ==
    /\ task[t].pc = "start_product"
    /\ Commit(t, StartProductDone(Cur(t, 0), r), "start_product")

\* poll(): getToken returns, and checkNewOrders awaits fetchLastSales, or it
\* throws into the catch of line 571.
PollTokenReturn(t, ok) ==
    /\ task[t].pc = "poll_token"
    /\ Commit(t, IF ok THEN [Cur(t, 0) EXCEPT !.tk = At(task[t], "sales")]
                 ELSE Finish(Cur(t, 0)),
              "poll_token")

SalesReturn(t, r, th) ==
    /\ task[t].pc = "sales"
    /\ Commit(t, SalesDone(Cur(t, th), r), "sales")

InvReturn(t, r, th) ==
    /\ task[t].pc = "inv"
    /\ Commit(t, InvDone(Cur(t, th), r), "inv")

ChatsReturn(t, r) ==
    /\ task[t].pc = "chats"
    /\ Commit(t, ChatsDone(Cur(t, 0), r), "chats")

NcProductReturn(t, r) ==
    /\ task[t].pc = "nc_product"
    /\ Commit(t, NcEmail([Cur(t, 0) EXCEPT
                            !.pcache = ProductCacheAfter(
                                           @, ProductOf(task[t].chats[task[t].j]), r),
                            !.tk.prod = ProductName(r)]),
              "nc_product")

NcEmailReturn(t, r) ==
    /\ task[t].pc = "nc_email"
    /\ Commit(t, [Cur(t, 0) EXCEPT
                    !.icache = ChatInvoiceCacheAfter(@, task[t].chats[task[t].j], r),
                    !.tk = [At(task[t], "nc_msgs") EXCEPT !.email = ChatEmail(r)]],
              "nc_email")

NcMsgsReturn(t, r, th) ==
    /\ task[t].pc = "nc_msgs"
    /\ Commit(t, NcMsgs(Cur(t, th), r), "nc_msgs")

MdMsgsReturn(t, r, th) ==
    /\ task[t].pc = "md_msgs"
    /\ Commit(t, MdMsgs(Cur(t, th), r), "md_msgs")

MdProductReturn(t, r, th) ==
    /\ task[t].pc = "md_product"
    /\ Commit(t, MdEmail([Cur(t, th) EXCEPT
                            !.pcache = ProductCacheAfter(
                                           @, ProductOf(task[t].chats[task[t].i]), r),
                            !.tk.prod = ProductName(r)]),
              "md_product")

MdEmailReturn(t, r, th) ==
    /\ task[t].pc = "md_email"
    /\ Commit(t, MdEmit([Cur(t, th) EXCEPT
                           !.icache = ChatInvoiceCacheAfter(
                                          @, task[t].chats[task[t].i], r),
                           !.tk.email = ChatEmail(r)]),
              "md_email")

----------------------------------------------------------------------------
\* The responses of the environment.

SalesResponses(ids, n) ==
    {[st |-> "fail", list |-> <<>>], [st |-> "soft", list |-> <<>>]}
    \cup {[st |-> "ok", list |-> s] : s \in SeqsNoDup(ids, n)}

ListResponses(ids, n) ==
    {[st |-> "fail", list |-> <<>>]}
    \cup {[st |-> "ok", list |-> s] : s \in SeqsNoDup(ids, n)}

InvoiceResponses ==
    {[st |-> "fail", email |-> FALSE, amount |-> FALSE]}
    \cup {[st |-> "ok", email |-> e, amount |-> a] : e, a \in BOOLEAN}

ProductResponses ==
    {[st |-> "fail", named |-> FALSE]}
    \cup {[st |-> "ok", named |-> b] : b \in BOOLEAN}

\* The steps of the monitor with the responses drawn from the record D.
Step(D) ==
    \/ \E t \in Tasks : Start(t) /\ Hist(D.hist, <<>>)
    \/ StartWhileRunning("noop" \in D.hist)
    \/ StopWhileStopped("noop" \in D.hist)
    \/ \E t \in Tasks : TimerFire(t) /\ Hist(D.hist, <<>>)
    \/ \E t \in Tasks, ok \in D.tok : StartTokenReturn(t, ok) /\ Hist(D.hist, ok)
    \/ \E t \in Tasks, r \in D.startSales : StartSalesReturn(t, r) /\ Hist(D.hist, r)
    \/ \E t \in Tasks, r \in D.chats : StartChatsReturn(t, r) /\ Hist(D.hist, r)
    \/ \E t \in Tasks, r \in D.prod : StartProductReturn(t, r) /\ Hist(D.hist, r)
    \/ \E t \in Tasks, ok \in D.tok : PollTokenReturn(t, ok) /\ Hist(D.hist, ok)
    \/ \E t \in Tasks, r \in D.sales, th \in D.th :
          SalesReturn(t, r, th) /\ Hist(D.hist, r)
    \/ \E t \in Tasks, r \in D.inv, th \in D.th :
          InvReturn(t, r, th) /\ Hist(D.hist, r)
    \/ \E t \in Tasks, r \in D.chats : ChatsReturn(t, r) /\ Hist(D.hist, r)
    \/ \E t \in Tasks, r \in D.prod : NcProductReturn(t, r) /\ Hist(D.hist, r)
    \/ \E t \in Tasks, r \in D.inv : NcEmailReturn(t, r) /\ Hist(D.hist, r)
    \/ \E t \in Tasks, r \in D.msgs, th \in D.th :
          NcMsgsReturn(t, r, th) /\ Hist(D.hist, r)
    \/ \E t \in Tasks, r \in D.msgs, th \in D.th :
          MdMsgsReturn(t, r, th) /\ Hist(D.hist, r)
    \/ \E t \in Tasks, r \in D.prod, th \in D.th :
          MdProductReturn(t, r, th) /\ Hist(D.hist, r)
    \/ \E t \in Tasks, r \in D.inv, th \in D.th :
          MdEmailReturn(t, r, th) /\ Hist(D.hist, r)

\* fetchLastSales(token, 1) in start(): at most one sale comes back.
StartTop == 1

\* The enrichment requests (fetchInvoiceDetails, fetchProduct) that fail.
InvoiceFailures == {r \in InvoiceResponses : r.st = "fail"}
ProductFailures == {r \in ProductResponses : r.st = "fail"}

----------------------------------------------------------------------------
\* Spec: start() and stop() are called at any time, so that cycles of
\* several activations interleave.  The lists are short and the enrichment
\* requests fail.

Responses ==
    [tok        |-> BOOLEAN,
     startSales |-> SalesResponses(1..FewInvoices, StartTop),
     sales      |-> SalesResponses(1..FewInvoices, ShortLen),
     chats      |-> ListResponses(ChatIds, MaxChat),
     msgs       |-> ListResponses(1..ShortLen, ShortLen),
     inv        |-> InvoiceFailures,
     prod       |-> ProductFailures,
     th         |-> 0..1,
     hist       |-> {}]

Next == Step(Responses) \/ (Stop /\ Hist(Responses.hist, <<>>))

Spec == Init /\ [][Next]_vars

----------------------------------------------------------------------------
\* SpecRun: start() is called once and stop() never, so that one chain of
\* cycles runs.  The lists are longer; the watermarks at the beginning of a
\* cycle and the handler calls of the cycle are kept.

RunResponses ==
    [tok        |-> BOOLEAN,
     startSales |-> SalesResponses(InvoiceIds, StartTop),
     sales      |-> SalesResponses(InvoiceIds, MaxSalesLen),
     chats      |-> ListResponses(ChatIds, MaxChat),
     msgs       |-> ListResponses(MsgIds, MaxMsg),
     inv        |-> InvoiceFailures,
     prod       |-> ProductFailures,
     th         |-> 0..1,
     hist       |-> {"snap", "log"}]

NextRun == Step(RunResponses)

SpecRun == Init /\ [][NextRun]_vars

----------------------------------------------------------------------------
\* SpecData: one chain of cycles as in SpecRun, with enrichment requests
\* that succeed or fail, so that the caches fill, and with few invoices.
\* The response the last step consumed is kept.

DataResponses ==
    [tok        |-> BOOLEAN,
     startSales |-> SalesResponses(1..FewInvoices, StartTop),
     sales      |-> SalesResponses(1..FewInvoices, FewInvoices),
     chats      |-> ListResponses(ChatIds, MaxChat),
     msgs       |-> ListResponses(MsgIds, MaxMsg),
     inv        |-> {r \in InvoiceResponses : r.st = "fail" \/ (r.email /\ r.amount)},
     prod       |-> {r \in ProductResponses : r.st = "fail" \/ r.named},
     th         |-> 0..1,
     hist       |-> {"resp"}]

NextData == Step(DataResponses)

SpecData == Init /\ [][NextData]_vars

----------------------------------------------------------------------------
\* SpecScenario: one chain of cycles against the API of the end-to-end
\* scenario: the newest sale is 100 at startup and the sales are 100, 101
\* afterwards; the chats are 102, 103, 104, and then 101 as well, listed
\* first or last; a message fetch brings messages 1, 2 or fails.  The
\* watermarks at the beginning of a cycle, the responses and the handler
\* calls of the cycle, and the chats listed since start() are kept.

Ok(list) == [st |-> "ok", list |-> list]

ScenarioResponses ==
    [tok        |-> {TRUE},
     startSales |-> {Ok(<<100>>)},
     sales      |-> {Ok(<<100, 101>>)},
     chats      |-> {Ok(<<102, 103, 104>>), Ok(<<101, 102, 103, 104>>),
                     Ok(<<102, 103, 104, 101>>)},
     msgs       |-> {Ok(<<1, 2>>), [st |-> "fail", list |-> <<>>]},
     inv        |-> InvoiceFailures,
     prod       |-> ProductFailures,
     th         |-> {0},
     hist       |-> {"snap", "in", "log", "seen"}]

NextScenario == Step(ScenarioResponses)

SpecScenario == Init /\ [][NextScenario]_vars

----------------------------------------------------------------------------
\* What the claims speak about.

\* The places of poll() between its guard and its finally block.
CyclePcs ==
    {"poll_token", "sales", "inv", "chats", "nc_product", "nc_email", "nc_msgs",
     "md_msgs", "md_product", "md_email"}

\* Activation t is inside a poll cycle.
InCycle(t) == task[t].pc \in CyclePcs

\* The ids of the events of kind k in the sequence of handler calls es.
IdsOf(es, k) ==
    LET ks == SelectSeq(es, LAMBDA e : e.kind = k)
    IN  [p \in DOMAIN ks |-> ks[p].id]

\* The NewMessages events for chat c in the sequence of handler calls es.
MessageEvents(es, c) ==
    SelectSeq(es, LAMBDA e : e.kind = "NewMessages" /\ e.id = c)

\* s is strictly ascending.
Ascending(s) == \A a, b \in DOMAIN s : a < b => s[a] < s[b]

----------------------------------------------------------------------------
\* C1: in every poll cycle, every sale passed to onNewOrder has an
\* invoice_id above lastSaleInvoiceId as it stood when the cycle began, and
\* every message carried by an onNewMessage call has an id above the
\* lastMessageIds value of its chat as it stood when the cycle began.
\* (SpecRun.)  The new-chat pass breaks it: a chat that has a watermark and
\* stands among the first entries of a list that grew is reported with its
\* whole history.
C1_NothingAtOrBelowWatermark ==
    \A t \in Tasks :
        \A p \in DOMAIN hist[t].log :
            LET e == hist[t].log[p]
            IN  /\ (e.kind = "NewOrder" /\ hist[t].w0 # Null) => e.id > hist[t].w0
                /\ (e.kind = "NewMessages" /\ e.id \in DOMAIN hist[t].m0) =>
                      \A q \in DOMAIN e.msgs : e.msgs[q] > hist[t].m0[e.id]

\* C3: once lastSaleInvoiceId is non-null it never decreases and never
\* returns to null.  (Spec.)  start() after stop() overwrites it with the
\* newest sale the API returns, and checkNewOrders of an overlapping cycle
\* assigns the maximum of the list it read before its awaits.
C3_InvoiceWatermarkMonotone ==
    [][lastSaleInvoiceId # Null =>
          lastSaleInvoiceId' # Null /\ lastSaleInvoiceId' >= lastSaleInvoiceId]_vars

\* C4: for every chat, once lastMessageIds has an entry for it the value
\* never decreases, whichever pass writes it.  (SpecData.)  The new-chat pass
\* sets the entry to the highest fetched id or to 0 whatever it was.
C4_MessageWatermarkMonotone ==
    [][\A c \in DOMAIN lastMessageIds :
          c \in DOMAIN lastMessageIds' /\ lastMessageIds'[c] >= lastMessageIds[c]]_vars

\* C5: at most one poll cycle of the monitor is in progress at any time.
\* (Spec.)  stop() followed by start() while a cycle is in flight starts a
\* second chain of cycles next to the first.
C5_AtMostOneCycle ==
    Cardinality({t \in Tasks : InCycle(t)}) <= 1

\* Every response the fetches of a sales list, a chat list and a message
\* list can bring in the specifications above.
AnySales == SalesResponses(InvoiceIds, MaxSalesLen)
AnyChats == ListResponses(ChatIds, MaxChat)
AnyMsgs == ListResponses(MsgIds, MaxMsg)
AnyThrow == 0..1

\* x is the highest entry of the list s.
IsMaxOf(x, s) == x \in Range(s) /\ \A y \in Range(s) : y <= x

\* The entries of the list s above the watermark w.
Above(s, w) == {x \in Range(s) : x > w}

\* The step is one of activation t.
StepOf(t) == task'[t] # task[t]

----------------------------------------------------------------------------
\* C6: when a sales list is fetched while lastSaleInvoiceId is null, no
\* handler is called and lastSaleInvoiceId becomes the highest invoice_id of
\* the list, in checkNewOrders and in the baseline fetch of start() (which
\* asks for one sale).  (SpecRun.)
C6_ColdStartSales ==
    [][\A t \in Tasks :
          /\ \A r \in AnySales, th \in AnyThrow :
                (/\ task[t].pc = "sales"
                 /\ lastSaleInvoiceId = Null
                 /\ r.st = "ok" /\ r.list # <<>>
                 /\ SalesReturn(t, r, th))
                => out' = <<>> /\ IsMaxOf(lastSaleInvoiceId', r.list)
          /\ \A r \in SalesResponses(InvoiceIds, StartTop) :
                (/\ task[t].pc = "start_sales"
                 /\ lastSaleInvoiceId = Null
                 /\ r.st = "ok" /\ r.list # <<>>
                 /\ StartSalesReturn(t, r))
                => out' = <<>> /\ IsMaxOf(lastSaleInvoiceId', r.list)]_vars

\* A cycle that began with a null watermark has fetched a sales list in
\* checkNewOrders: nothing was reported and the watermark is set.
C6_Witness ==
    \E t \in Tasks :
        /\ last.op = "sales" /\ last.t = t
        /\ hist[t].w0 = Null
        /\ lastSaleInvoiceId > 1
        /\ out = <<>> /\ hist[t].log = <<>>

----------------------------------------------------------------------------
\* The sale diff of activation t has ended in this step, on the list S
\* fetched at watermark w.  With gated, the result is the one of the code:
\* nothing in the first cycle, the sales before a throw when onNewOrder
\* throws.  Without, it is the one of the claim as it was written.
SaleDiffResult(t, S, w, gated) ==
    LET new == Above(S, w)
        ids == IdsOf(hist'[t].log, "NewOrder")
    IN  IF gated /\ ~isInitialized
        THEN ids = <<>> /\ lastSaleInvoiceId' = w
        ELSE IF gated /\ last'.threw
             THEN /\ ids # <<>> /\ Ascending(ids)
                  /\ Range(ids) \subseteq new
                  /\ \A x \in Range(ids), y \in new : y < x => y \in Range(ids)
                  /\ lastSaleInvoiceId' = w
             ELSE /\ Ascending(ids)
                  /\ Range(ids) = new
                  /\ new # {} => (lastSaleInvoiceId' \in new
                                  /\ \A y \in new : y <= lastSaleInvoiceId')
                  /\ new = {} => lastSaleInvoiceId' = w

SaleDiff(t, gated) ==
    /\ \A r \in AnySales, th \in AnyThrow :
          (/\ task[t].pc = "sales"
           /\ lastSaleInvoiceId # Null
           /\ r.st = "ok" /\ r.list # <<>>
           /\ SalesReturn(t, r, th)
           /\ task'[t].pc # "inv")
          => SaleDiffResult(t, r.list, lastSaleInvoiceId, gated)
    /\ (task[t].pc = "inv" /\ StepOf(t))
          => /\ lastSaleInvoiceId = hist[t].w0
             /\ task'[t].pc # "inv"
                   => SaleDiffResult(t, task[t].sales, hist[t].w0, gated)

\* C7, as written: given a non-null watermark w and a fetched sales list S,
\* the sale diff reports exactly the sales of S above w, once each, in
\* ascending order, and then sets the watermark to the highest of them.
\* (SpecRun.)
C7_AsWritten == [][\A t \in Tasks : SaleDiff(t, FALSE)]_vars

\* C7, amended: it does so when isInitialized is true and every onNewOrder
\* call returns; while isInitialized is false it reports nothing and leaves
\* the watermark; when an onNewOrder call throws, the sales up to that call
\* were passed to the handler in ascending order and the watermark is left.
\* (SpecRun.)
C7_SaleDiff == [][\A t \in Tasks : SaleDiff(t, TRUE)]_vars

\* The sale diff has ended after reporting two sales, and the watermark is
\* the second.
C7_Witness ==
    \E t \in Tasks :
        LET ids == IdsOf(hist[t].log, "NewOrder")
        IN  /\ last.t = t /\ last.op \in {"sales", "inv"} /\ ~last.threw
            /\ task[t].pc = "chats"
            /\ hist[t].w0 # Null
            /\ Len(ids) = 2 /\ ids[1] < ids[2]
            /\ lastSaleInvoiceId = ids[2]

----------------------------------------------------------------------------
\* The chat the message pass of activation t is at.
MdChat(t) == task[t].chats[task[t].i]

\* Activation t has left the chat its message pass was at.
MdLeft(t) ==
    \/ task'[t].pc \notin {"md_msgs", "md_product", "md_email"}
    \/ task'[t].i = task[t].i + 1 /\ task'[t].pc = "md_msgs"

\* The message pass of activation t waits for the product name or the email
\* of chat c, with the messages of M above m to report.
MdPending(t, c, M, m) ==
    /\ task'[t].pc \in {"md_product", "md_email"}
    /\ task'[t].i = task[t].i
    /\ out' = <<>>
    /\ lastMessageIds' = lastMessageIds
    /\ Range(task'[t].all) = Range(M)
    /\ Range(task'[t].newMsgs) = Above(M, m)
    /\ Ascending(task'[t].newMsgs)
    /\ task'[t].known = m

\* The message pass of activation t calls onNewMessage for chat c once, with
\* the messages of M above m in ascending order, and leaves the chat.  With
\* gated, the watermark is set only when the call returned.
MdReported(t, c, M, m, gated) ==
    /\ Len(out') = 1
    /\ out'[1].kind = "NewMessages" /\ out'[1].id = c
    /\ Range(out'[1].msgs) = Above(M, m)
    /\ Ascending(out'[1].msgs)
    /\ MdLeft(t)
    /\ c \in DOMAIN lastMessageIds'
    /\ IF gated /\ last'.threw
       THEN lastMessageIds'[c] = lastMessageIds[c]
       ELSE IsMaxOf(lastMessageIds'[c], M)

\* The response activation t consumed in this step.
Rsp(t) == hist'[t].rsp

MessageDiff(t, gated) ==
    /\ (/\ task[t].pc = "md_msgs" /\ StepOf(t)
        /\ Rsp(t).st = "ok"
        /\ MdChat(t) \in DOMAIN lastMessageIds
        /\ Above(Rsp(t).list, lastMessageIds[MdChat(t)]) # {})
          => \/ MdPending(t, MdChat(t), Rsp(t).list, lastMessageIds[MdChat(t)])
             \/ MdReported(t, MdChat(t), Rsp(t).list, lastMessageIds[MdChat(t)],
                           gated)
    /\ (task[t].pc \in {"md_product", "md_email"} /\ StepOf(t))
          => /\ MdChat(t) \in DOMAIN lastMessageIds
             /\ lastMessageIds[MdChat(t)] = task[t].known
             /\ \/ MdPending(t, MdChat(t), task[t].all, task[t].known)
                \/ MdReported(t, MdChat(t), task[t].all, task[t].known, gated)

\* C8, as written: given a chat with watermark m and a fetched message list
\* M whose highest id is above m, the message pass calls onNewMessage once
\* for the chat, with the messages of M above m in ascending order, and then
\* sets the watermark of the chat to the highest id of M.  (SpecData.)
C8_AsWritten == [][\A t \in Tasks : MessageDiff(t, FALSE)]_vars

\* C8, amended: the watermark is set to the highest id of M when the
\* onNewMessage call returns, and is left at m when it throws.  (SpecData.)
C8_MessageDiff == [][\A t \in Tasks : MessageDiff(t, TRUE)]_vars

\* The message pass has reported two messages of a chat and set the
\* watermark of the chat to the second.
C8_Witness ==
    \E t \in Tasks :
        /\ last.t = t /\ last.op \in {"md_msgs", "md_product", "md_email"}
        /\ ~last.threw
        /\ Len(out) = 1 /\ out[1].kind = "NewMessages"
        /\ Len(out[1].msgs) = 2 /\ out[1].msgs[1] < out[1].msgs[2]
        /\ out[1].id \in DOMAIN lastMessageIds
        /\ lastMessageIds[out[1].id] = out[1].msgs[2]

----------------------------------------------------------------------------
\* Sale x is passed to onNewOrder in this step.
SaleReported(x) ==
    \E p \in DOMAIN out' : out'[p].kind = "NewOrder" /\ out'[p].id = x

\* Sale x waits in the loop of checkNewOrders of activation t.
SalePending(t, x) ==
    /\ task'[t].pc = "inv"
    /\ \E p \in task'[t].k..Len(task'[t].newSales) : task'[t].newSales[p] = x

\* Message x of chat c is passed to onNewMessage in this step.
MessageReported(c, x) ==
    \E p \in DOMAIN out' :
        /\ out'[p].kind = "NewMessages" /\ out'[p].id = c
        /\ x \in Range(out'[p].msgs)

\* Message x waits in the message pass of activation t.
MessagePending(t, x) ==
    /\ task'[t].pc \in {"md_product", "md_email"}
    /\ task'[t].i = task[t].i
    /\ x \in Range(task'[t].newMsgs)

\* Message x of chat c can still be found by a later diff.
StillAbove(c, x) == c \notin DOMAIN lastMessageIds' \/ x > lastMessageIds'[c]

\* The chat the new-chat pass of activation t is at.
NcChat(t) == task[t].chats[task[t].j]

\* What a step of activation t does with the items it fetched or holds.
\* With seeded, the messages fetched in the first cycle for a chat that has
\* no watermark are items too.
NothingMissed(t, seeded) ==
    /\ (/\ task[t].pc = "sales" /\ StepOf(t)
        /\ lastSaleInvoiceId # Null
        /\ Rsp(t).st = "ok")
          => \A x \in Above(Rsp(t).list, lastSaleInvoiceId) :
                \/ SaleReported(x)
                \/ SalePending(t, x)
                \/ (~isInitialized \/ last'.threw) /\ x > lastSaleInvoiceId'
    /\ (task[t].pc = "inv" /\ StepOf(t))
          => \A p \in task[t].k..Len(task[t].newSales) :
                \/ SaleReported(task[t].newSales[p])
                \/ SalePending(t, task[t].newSales[p])
                \/ last'.threw /\ task[t].newSales[p] > lastSaleInvoiceId'
    /\ (/\ task[t].pc = "md_msgs" /\ StepOf(t)
        /\ Rsp(t).st = "ok"
        /\ MdChat(t) \in DOMAIN lastMessageIds)
          => \A x \in Above(Rsp(t).list, lastMessageIds[MdChat(t)]) :
                MessageReported(MdChat(t), x) \/ MessagePending(t, x)
    /\ (task[t].pc \in {"md_product", "md_email"} /\ StepOf(t))
          => \A x \in Range(task[t].newMsgs) :
                MessageReported(MdChat(t), x) \/ MessagePending(t, x)
    /\ (/\ task[t].pc = "nc_msgs" /\ StepOf(t)
        /\ Rsp(t).st = "ok"
        /\ NcChat(t) \in DOMAIN lastMessageIds)
          => \A x \in Above(Rsp(t).list, lastMessageIds[NcChat(t)]) :
                \/ MessageReported(NcChat(t), x)
                \/ last'.threw /\ StillAbove(NcChat(t), x)
    /\ (/\ seeded
        /\ task[t].pc = "md_msgs" /\ StepOf(t)
        /\ ~isInitialized
        /\ Rsp(t).st = "ok"
        /\ MdChat(t) \notin DOMAIN lastMessageIds)
          => \A x \in Range(Rsp(t).list) :
                MessageReported(MdChat(t), x) \/ StillAbove(MdChat(t), x)

----------------------------------------------------------------------------
\* The step calls no handler and leaves the watermarks and the chat count.
Quiet ==
    /\ out' = <<>>
    /\ lastSaleInvoiceId' = lastSaleInvoiceId
    /\ lastChatCount' = lastChatCount
    /\ lastMessageIds' = lastMessageIds

\* C10: a cycle whose sales list has no invoice_id above the watermark,
\* whose chat list is as long as lastChatCount and whose message lists have
\* no id above the watermark of their chat calls no handler and leaves
\* lastSaleInvoiceId, lastChatCount and lastMessageIds as they are, step by
\* step, so that the next cycle starts from the same values.  (SpecData.)
C10_NoChangeNoEffect ==
    [][\A t \in Tasks :
          /\ (task[t].pc = "poll_token" /\ StepOf(t)) => Quiet
          /\ (/\ task[t].pc = "sales" /\ StepOf(t)
              /\ Rsp(t).st = "ok"
              /\ Above(Rsp(t).list, lastSaleInvoiceId) = {})
                => Quiet /\ task'[t].pc = "chats"
          /\ (/\ task[t].pc = "chats" /\ StepOf(t)
              /\ Rsp(t).st = "ok"
              /\ Len(Rsp(t).list) = lastChatCount)
                => Quiet /\ task'[t].pc \in {"md_msgs", "timer", "idle"}
          /\ (/\ task[t].pc = "md_msgs" /\ StepOf(t)
              /\ Len(task[t].chats) = lastChatCount
              /\ Rsp(t).st = "ok"
              /\ MdChat(t) \in DOMAIN lastMessageIds
              /\ Above(Rsp(t).list, lastMessageIds[MdChat(t)]) = {})
                => Quiet /\ MdLeft(t)]_vars

\* A cycle over the one chat the monitor knows has ended with a message list
\* that lies below the watermark of the chat.
C10_Witness ==
    \E t \in Tasks, c \in ChatIds :
        /\ last.t = t /\ last.op = "md_msgs"
        /\ task[t].pc = "timer"
        /\ out = <<>>
        /\ lastSaleInvoiceId # Null
        /\ lastChatCount = 1
        /\ DOMAIN lastMessageIds = {c}
        /\ hist[t].rsp.st = "ok" /\ hist[t].rsp.list # <<>>
        /\ \A x \in Range(hist[t].rsp.list) : x < lastMessageIds[c]

----------------------------------------------------------------------------
\* The responses of kind op among the responses h of a cycle.
Consumed(h, op) ==
    LET es == SelectSeq(h, LAMBDA e : e.op = op)
    IN  [p \in DOMAIN es |-> es[p].r]

\* Activation t has finished the first cycle after a startup that left the
\* invoice watermark at 100, the chat count at 3 and no message watermark;
\* the cycle fetched the sales 100, 101, a list of four chats with chat 101
\* in it (in front, with first) and, for chat 101, the messages 1, 2.
PollOneDone(t, first) ==
    LET h     == hist[t].ins
        chats == Consumed(h, "chats")
        where == {p \in DOMAIN chats[1].list : chats[1].list[p] = 101}
    IN  /\ task[t].pc = "timer"
        /\ ~hist[t].i0
        /\ hist[t].w0 = 100 /\ hist[t].c0 = 3 /\ hist[t].m0 = EmptyMap
        /\ Consumed(h, "sales") = <<Ok(<<100, 101>>)>>
        /\ Len(chats) = 1 /\ Len(chats[1].list) = 4
        /\ where # {} /\ (first => where = {1})
        /\ Consumed(h, "nc_msgs") = <<Ok(<<1, 2>>)>>
        /\ \A p \in where : Consumed(h, "md_msgs")[p] = Ok(<<1, 2>>)

\* The NewChat and NewMessages calls of the cycle are the ones for chat 101,
\* the chat count is 4 and the message watermark of chat 101 is 2.
ChatOneOhOneReported(t) ==
    /\ IdsOf(hist[t].log, "NewChat") = <<101>>
    /\ IdsOf(hist[t].log, "NewMessages") = <<101>>
    /\ MessageEvents(hist[t].log, 101)[1].msgs = <<1, 2>>
    /\ lastChatCount = 4
    /\ 101 \in DOMAIN lastMessageIds /\ lastMessageIds[101] = 2

\* C9, as written: after a startup baseline of invoice watermark 100 and
\* chat count 3 with no message watermark, the first cycle, fetching the
\* invoices 100, 101, a list of four chats whose new chat is 101 and the
\* messages 1, 2 of chat 101, calls onNewOrder once for invoice 101,
\* onNewChat once for chat 101 and onNewMessage once for chat 101 with
\* messages 1, 2, and ends with invoice watermark 101, chat count 4 and
\* message watermark 2 for chat 101.  (SpecScenario.)
C9_AsWritten ==
    \A t \in Tasks :
        PollOneDone(t, FALSE) =>
            /\ IdsOf(hist[t].log, "NewOrder") = <<101>>
            /\ lastSaleInvoiceId = 101
            /\ ChatOneOhOneReported(t)

\* C9, amended: when chat 101 is the first entry of the list, the first
\* cycle calls onNewChat once for chat 101 and onNewMessage once for chat
\* 101 with messages 1, 2, and ends with chat count 4 and message watermark
\* 2 for chat 101; it does not call onNewOrder, and the invoice watermark
\* stays 100.  (SpecScenario.)
C9_EndToEnd ==
    \A t \in Tasks :
        PollOneDone(t, TRUE) =>
            /\ IdsOf(hist[t].log, "NewOrder") = <<>>
            /\ lastSaleInvoiceId = 100
            /\ ChatOneOhOneReported(t)

\* The first cycle of the scenario has ended.
C9_Witness ==
    \E t \in Tasks : PollOneDone(t, TRUE) /\ Len(hist[t].log) = 2

----------------------------------------------------------------------------
\* SpecOrders: one chain of cycles as in SpecRun, with sales lists of up to
\* MaxSalesLen invoices and invoice-detail requests that succeed or fail, so
\* that a batch of new sales has sales of both kinds; the message lists are
\* short.  The response of the last step and the handler calls of each
\* cycle are kept.

OrderResponses ==
    [tok        |-> BOOLEAN,
     startSales |-> SalesResponses(InvoiceIds, StartTop),
     sales      |-> SalesResponses(InvoiceIds, MaxSalesLen),
     chats      |-> ListResponses(ChatIds, MaxChat),
     msgs       |-> ListResponses(1..ShortLen, ShortLen),
     inv        |-> {r \in InvoiceResponses : r.st = "fail" \/ (r.email /\ r.amount)},
     prod       |-> ProductFailures,
     th         |-> 0..1,
     hist       |-> {"resp", "log"}]

NextOrders == Step(OrderResponses)

SpecOrders == Init /\ [][NextOrders]_vars

----------------------------------------------------------------------------
\* The invoice-detail fetch for the sale at position k of the batch of new
\* sales of activation t has returned or failed in this step: the sale is
\* passed to onNewOrder, with no email and no amount when the fetch failed
\* and with the fetched ones when it succeeded; the sales after it are
\* passed to onNewOrder in ascending order up to one that waits for its own
\* fetch, and after the last one the watermark is the highest of the batch.
\* With gated, a throw of onNewOrder ends the batch and leaves the watermark.
OrderEnriched(t, gated) ==
    (task[t].pc = "inv" /\ StepOf(t)) =>
        LET ns  == task[t].newSales
            k   == task[t].k
            ids == IdsOf(out', "NewOrder")
        IN  /\ Range(ns) = Above(task[t].sales, lastSaleInvoiceId)
            /\ Ascending(ns)
            /\ Len(out') >= 1 /\ Len(ids) = Len(out')
            /\ out'[1].id = ns[k]
            /\ Rsp(t).st = "fail" => (~out'[1].email /\ ~out'[1].amount)
            /\ Rsp(t).st = "ok" => (/\ out'[1].email = Rsp(t).email
                                    /\ out'[1].amount = Rsp(t).amount)
            /\ IF gated /\ last'.threw
               THEN /\ task'[t].pc = "chats"
                    /\ lastSaleInvoiceId' = lastSaleInvoiceId
               ELSE \/ /\ task'[t].pc = "inv"
                       /\ task'[t].newSales = ns
                       /\ task'[t].k > k
                       /\ ids = SubSeq(ns, k, task'[t].k - 1)
                       /\ lastSaleInvoiceId' = lastSaleInvoiceId
                    \/ /\ task'[t].pc = "chats"
                       /\ ids = SubSeq(ns, k, Len(ns))
                       /\ IsMaxOf(lastSaleInvoiceId', ns)

\* C11, as written: if the invoice-detail fetch for one new sale fails, the
\* NewOrder event for that sale is still emitted with no buyer email and no
\* amount, every later sale of the batch is still enriched and emitted, and
\* the watermark advances to the highest of the batch's new sales.
\* (SpecOrders.)
C11_AsWritten == [][\A t \in Tasks : OrderEnriched(t, FALSE)]_vars

\* C11, amended: it is so as long as the onNewOrder calls return; a call
\* that throws ends the batch, and the watermark stays where it was.
\* (SpecOrders.)
C11_EnrichmentIsolated == [][\A t \in Tasks : OrderEnriched(t, TRUE)]_vars

\* A batch of two new sales has ended: the fetch for the first failed and
\* it was reported with no email and no amount, the second was enriched and
\* reported, and the watermark is the second.
C11_Witness ==
    \E t \in Tasks :
        LET log == hist[t].log
        IN  /\ last.t = t /\ last.op = "inv" /\ ~last.threw
            /\ task[t].pc = "chats"
            /\ hist[t].rsp.st = "ok"
            /\ Len(log) = 2 /\ Len(out) = 1
            /\ log[1].kind = "NewOrder" /\ ~log[1].email /\ ~log[1].amount
            /\ log[2].kind = "NewOrder" /\ log[2].email /\ log[2].amount
            /\ log[1].id < log[2].id
            /\ lastSaleInvoiceId = log[2].id

----------------------------------------------------------------------------
\* The passes of poll() over the chats: the new-chat pass and the message
\* pass.
ChatPassPcs == {"nc_product", "nc_email", "nc_msgs", "md_msgs", "md_product", "md_email"}

\* C12: if the sales step of a cycle fails (fetchLastSales rejects on a
\* transport error or a non-2xx status, or answers with an error status, or
\* a handler throws inside checkNewOrders), the cycle goes on: fetchChats is
\* awaited next with the invoice watermark as it was, and the chat list it
\* brings is diffed against lastChatCount and its chats are taken through
\* the message pass as in any cycle.  (SpecOrders.)
C12_SalesFailureIsolated ==
    [][\A t \in Tasks :
          /\ (/\ task[t].pc \in {"sales", "inv"} /\ StepOf(t)
              /\ \/ task[t].pc = "sales" /\ Rsp(t).st # "ok"
                 \/ last'.threw)
                => /\ task'[t].pc = "chats"
                   /\ lastSaleInvoiceId' = lastSaleInvoiceId
                   /\ isInitialized' = isInitialized
          /\ (task[t].pc = "chats" /\ StepOf(t) /\ Rsp(t).st = "ok")
                => IF Rsp(t).list = <<>>
                   THEN lastChatCount' = 0 /\ task'[t].pc = "timer"
                   ELSE /\ task'[t].chats = Rsp(t).list
                        /\ task'[t].pc \in ChatPassPcs
                        /\ IF lastChatCount > 0 /\ Len(Rsp(t).list) > lastChatCount
                           THEN /\ task'[t].n = Len(Rsp(t).list) - lastChatCount
                                /\ task'[t].j = 1
                           ELSE task'[t].i = 1 /\ task'[t].pc = "md_msgs"]_vars

\* The sales fetch of a cycle has failed and the cycle awaits fetchChats.
C12_Witness ==
    \E t \in Tasks :
        /\ last.t = t /\ last.op = "sales"
        /\ hist[t].rsp.st = "fail"
        /\ task[t].pc = "chats"
        /\ isInitialized /\ lastSaleInvoiceId # Null

----------------------------------------------------------------------------
\* C13: if the message fetch for one chat fails during the message pass,
\* lastMessageIds is left as it was and no handler is called; the pass goes
\* on with the next chat of the cycle's chat list, whose messages are
\* fetched; after the last chat the cycle ends as any cycle, with
\* lastChatCount the length of the list.  (SpecData.)
C13_MessageFailureIsolated ==
    [][\A t \in Tasks :
          (task[t].pc = "md_msgs" /\ StepOf(t) /\ Rsp(t).st = "fail")
             => /\ lastMessageIds' = lastMessageIds
                /\ out' = <<>>
                /\ lastSaleInvoiceId' = lastSaleInvoiceId
                /\ IF task[t].i < Len(task[t].chats)
                   THEN /\ task'[t].pc = "md_msgs"
                        /\ task'[t].i = task[t].i + 1
                        /\ task'[t].chats = task[t].chats
                        /\ lastChatCount' = lastChatCount
                   ELSE /\ task'[t].pc = "timer"
                        /\ lastChatCount' = Len(task[t].chats)
                        /\ isInitialized']_vars

\* The message fetch for the first of two chats, which has a watermark, has
\* failed, and the messages of the second chat are being fetched.
C13_Witness ==
    \E t \in Tasks :
        /\ last.t = t /\ last.op = "md_msgs"
        /\ hist[t].rsp.st = "fail"
        /\ task[t].pc = "md_msgs" /\ task[t].i = 2
        /\ Len(task[t].chats) = 2
        /\ task[t].chats[1] \in DOMAIN lastMessageIds
        /\ lastMessageIds[task[t].chats[1]] > 0

----------------------------------------------------------------------------
\* SpecFair: start() is called once and stop() at any time after it, with
\* the responses of Spec, under the assumption that every request that was
\* made returns or fails (each await of an activation is resumed) and that
\* a timer that was set fires.

\* The external call activation t awaits returns or fails.
Returns(D, t) ==
    \/ \E ok \in D.tok : StartTokenReturn(t, ok) /\ Hist(D.hist, ok)
    \/ \E r \in D.startSales : StartSalesReturn(t, r) /\ Hist(D.hist, r)
    \/ \E r \in D.chats : StartChatsReturn(t, r) /\ Hist(D.hist, r)
    \/ \E r \in D.prod : StartProductReturn(t, r) /\ Hist(D.hist, r)
    \/ \E ok \in D.tok : PollTokenReturn(t, ok) /\ Hist(D.hist, ok)
    \/ \E r \in D.sales, th \in D.th : SalesReturn(t, r, th) /\ Hist(D.hist, r)
    \/ \E r \in D.inv, th \in D.th : InvReturn(t, r, th) /\ Hist(D.hist, r)
    \/ \E r \in D.chats : ChatsReturn(t, r) /\ Hist(D.hist, r)
    \/ \E r \in D.prod : NcProductReturn(t, r) /\ Hist(D.hist, r)
    \/ \E r \in D.inv : NcEmailReturn(t, r) /\ Hist(D.hist, r)
    \/ \E r \in D.msgs, th \in D.th : NcMsgsReturn(t, r, th) /\ Hist(D.hist, r)
    \/ \E r \in D.msgs, th \in D.th : MdMsgsReturn(t, r, th) /\ Hist(D.hist, r)
    \/ \E r \in D.prod, th \in D.th : MdProductReturn(t, r, th) /\ Hist(D.hist, r)
    \/ \E r \in D.inv, th \in D.th : MdEmailReturn(t, r, th) /\ Hist(D.hist, r)

\* The timer of activation t fires.
Fires(D, t) == TimerFire(t) /\ Hist(D.hist, <<>>)

NextFair ==
    \/ \E t \in Tasks : last.op = "new" /\ Start(t) /\ Hist(Responses.hist, <<>>)
    \/ Stop /\ Hist(Responses.hist, <<>>)
    \/ \E t \in Tasks : Fires(Responses, t)
    \/ \E t \in Tasks : Returns(Responses, t)

SpecFair ==
    /\ Init
    /\ [][NextFair]_vars
    /\ \A t \in Tasks : WF_vars(Returns(Responses, t)) /\ WF_vars(Fires(Responses, t))

\* A poll cycle of activation t ends in this step.
CycleEnds(t) == InCycle(t) /\ task'[t].pc \notin CyclePcs

----------------------------------------------------------------------------
\* C14: every poll cycle terminates, whichever of its requests fail, and
\* when it ends while the monitor is running the next cycle is scheduled
\* (the timer is set).  (SpecFair.)
C14_CycleEndsAndSchedules ==
    /\ \A t \in Tasks : InCycle(t) ~> ~InCycle(t)
    /\ [][\A t \in Tasks : (CycleEnds(t) /\ isRunning) => task'[t].pc = "timer"]_vars

\* A cycle whose token request failed has ended with the next cycle
\* scheduled.
C14_Witness ==
    \E t \in Tasks :
        /\ isRunning /\ last.t = t /\ last.op = "poll_token"
        /\ task[t].pc = "timer"

----------------------------------------------------------------------------
\* C15: stop() is cooperative.  It changes nothing but isRunning; while the
\* monitor is stopped, a cycle that is in flight goes on from await to await
\* and ends without a timer, no cycle begins, and a timer that fires calls a
\* poll() that returns at once, changing nothing.  With start() called once
\* and every request returning, a cycle in flight at stop() ends.
\* (SpecFair.)
C15_StopIsCooperative ==
    /\ \A t \in Tasks : (InCycle(t) /\ ~isRunning) ~> (task[t].pc = "idle")
    /\ [][/\ (isRunning /\ ~isRunning')
                => /\ task' = task
                   /\ UNCHANGED <<isInitialized, lastChatCount, lastMessageIds,
                                  productCache, invoiceCache, lastSaleInvoiceId>>
          /\ ~isRunning
                => \A t \in Tasks :
                      /\ task'[t].pc = "poll_token" => task[t].pc = "poll_token"
                      /\ (InCycle(t) /\ StepOf(t))
                            => task'[t].pc \in CyclePcs \cup {"idle"}
                      /\ (task[t].pc = "timer" /\ StepOf(t))
                            => /\ task'[t] = IdleTask
                               /\ out' = <<>>
                               /\ UNCHANGED <<isRunning, isInitialized, lastChatCount,
                                              lastMessageIds, productCache,
                                              invoiceCache, lastSaleInvoiceId>>]_vars

\* A cycle that was in flight when the monitor was stopped has called a
\* handler and goes on.
C15_Witness ==
    /\ ~isRunning
    /\ out # <<>> /\ ~last.threw
    /\ last.t \in Tasks /\ task[last.t].pc \in ChatPassPcs

----------------------------------------------------------------------------
\* The chat list the cycle of activation t has fetched (empty when it has
\* fetched none).
CycleChats(t) ==
    LET cs == SelectSeq(hist[t].ins, LAMBDA e : e.op = "chats" /\ e.r.st = "ok")
    IN  IF cs = <<>> THEN <<>> ELSE cs[1].r.list

\* The onNewChat calls for chat c among the handler calls es.
ChatEvents(es, c) == SelectSeq(es, LAMBDA e : e.kind = "NewChat" /\ e.id = c)

\* C16: when a cycle has ended, every chat of its chat list that was in no
\* chat list fetched before in this run (the one of start() included) has
\* been passed to onNewChat exactly once in the cycle.  (SpecScenario.)
\* The new chats are taken by position, chats.slice(0, n), so that a chat
\* appended to the list is missed and an old one reported in its place.
C16_EveryNewChatOnce ==
    \A t \in Tasks :
        task[t].pc = "timer" =>
            \A c \in Range(CycleChats(t)) \ hist[t].seen0 :
                Len(ChatEvents(hist[t].log, c)) = 1

----------------------------------------------------------------------------
\* C17: when the invoice-detail fetch for an invoice fails, in checkNewOrders
\* or in getChatBuyerEmail, invoiceCache is left as it was, with no entry
\* stored for the invoice.  (SpecOrders.)  checkNewOrders stores its entry
\* after the try block, whether or not the fetch failed.
C17_FailureNotCached ==
    [][\A t \in Tasks :
          (/\ task[t].pc \in {"inv", "nc_email", "md_email"} /\ StepOf(t)
           /\ Rsp(t).st = "fail")
             => invoiceCache' = invoiceCache]_vars

----------------------------------------------------------------------------
\* The product name the lookup of activation t has given in this step: the
\* productName of the chat at hand, or the one passed to the handler when
\* the chat was reported in the step.
NameGiven(t) ==
    IF task'[t].pc \in {"nc_email", "nc_msgs", "md_email"}
    THEN task'[t].prod
    ELSE out'[1].product

\* The product lookups of activation t: a request is awaited only for a
\* product that productCache does not hold; when it succeeds the name is
\* stored and given, when it fails nothing is stored and the name given is
\* fallback.
ProductLookup(t, fallback) ==
    /\ (task[t].pc \in {"nc_product", "md_product"} /\ StepOf(t))
          => LET p == ProductOf(IF task[t].pc = "nc_product"
                                THEN NcChat(t) ELSE MdChat(t))
             IN  /\ p \notin DOMAIN productCache
                 /\ Rsp(t).st = "ok"
                       => /\ productCache' = MapSet(productCache, p, "name")
                          /\ NameGiven(t) = "name"
                 /\ Rsp(t).st = "fail"
                       => /\ productCache' = productCache
                          /\ NameGiven(t) = fallback
    /\ (task'[t].pc \in {"nc_product", "md_product"} /\ StepOf(t))
          => ProductOf(task'[t].chats[IF task'[t].pc = "nc_product"
                                      THEN task'[t].j ELSE task'[t].i])
                \notin DOMAIN productCache'

\* C18: a product name that productCache holds is given with no request;
\* otherwise the request is made, a success stores the name, and a failure
\* stores nothing and gives the event the name "Product <id>".  (SpecData.)
\* fetchProduct rejects on a failure and its callers leave productName
\* null.
C18_ProductLookup ==
    [][\A t \in Tasks : ProductLookup(t, "Product id")]_vars

----------------------------------------------------------------------------
\* Every entry of the Map m is in m' with the same value.
Kept(m) == \A x \in DOMAIN m : x \in DOMAIN m' /\ m'[x] = m[x]

\* C19: an entry of productCache or of invoiceCache, once it is there, is
\* never removed and never replaced by a different value.  (SpecData.)
\* getChatBuyerEmail takes an entry with no buyer email for a miss and
\* replaces it with the entry it builds from its own fetch.
C19_CachesAppendOnly ==
    [][Kept(productCache) /\ Kept(invoiceCache)]_vars

----------------------------------------------------------------------------
\* C20: the baseline fetches of the sales (the one of start() and the one of
\* checkNewOrders while lastSaleInvoiceId is null) change lastSaleInvoiceId
\* only when it is null: a start() that finds it non-null leaves it.
\* (Spec.)  start() assigns sales[0].invoice_id whatever the watermark is.
C20_BaselineOnlyWhenNull ==
    [][\A t \in Tasks :
          (task[t].pc = "start_sales" /\ StepOf(t) /\ lastSaleInvoiceId # Null)
             => lastSaleInvoiceId' = lastSaleInvoiceId]_vars

----------------------------------------------------------------------------
\* The handlers of TelegramNotifier.js (src/TelegramNotifier.js).

\* TelegramNotifier.sendMessage, lines 52-67: the request succeeds, or it
\* fails and the error is logged and thrown again; notifyNewOrder,
\* notifyNewChat and notifyNewMessage pass the outcome on (return await).
SendOutcomes == {"sent", "failed"}

\* A mutant of HandlerOutcome: the error of a failed send leaves the handler.
HandlerOutcomeRethrows(s) == IF s = "failed" THEN "thrown" ELSE "done"

\* The onNewOrder, onNewChat and onNewMessage handlers, lines 339-418: the
\* send is awaited inside try/catch, and the catch logs the error.
HandlerOutcome(s) == IF s = "failed" THEN "caught" ELSE "done"

\* The handler call of a step that throws into the monitor when the send
\* has the outcome s (0: none).
HandlerThrow(s) == IF HandlerOutcome(s) = "thrown" THEN 1 ELSE 0

\* SpecTelegram: one chain of cycles with the handlers of
\* TelegramNotifier.js and a Telegram send that succeeds or fails; the
\* responses are those of SpecOrders.

TelegramResponses(s) ==
    [OrderResponses EXCEPT !.th = {HandlerThrow(s)}, !.hist = {"resp", s}]

NextTelegram == \E s \in SendOutcomes : Step(TelegramResponses(s))

SpecTelegram == Init /\ [][NextTelegram]_vars

\* The last entry of the non-empty list s.
Last(s) == s[Len(s)]

\* C21: a Telegram send that fails inside a handler never reaches the poll
\* cycle.  No step of a cycle sees a handler throw; whether the send
\* succeeded or failed, the watermark of a chat reported with messages is
\* the highest id reported, the invoice watermark after a batch of sales is
\* the last sale reported, the cycle goes on with its next step, and when
\* it ends the next cycle is scheduled.  (SpecTelegram.)
C21_SendFailureContained ==
    [][\A t \in Tasks :
          (InCycle(t) /\ StepOf(t)) =>
             LET orders == IdsOf(out', "NewOrder")
             IN  /\ ~last'.threw
                 /\ \A e \in Range(out') :
                       e.kind = "NewMessages"
                          => /\ e.id \in DOMAIN lastMessageIds'
                             /\ lastMessageIds'[e.id] = Last(e.msgs)
                 /\ \A e \in Range(out') :
                       e.kind = "NewChat" => e.id \in DOMAIN lastMessageIds'
                 /\ orders # <<>>
                       => \/ task'[t].pc = "inv"
                          \/ /\ task'[t].pc = "chats"
                             /\ lastSaleInvoiceId' = Last(orders)
                 /\ out' # <<>> => task'[t].pc \in CyclePcs \cup {"timer"}
                 /\ CycleEnds(t) => task'[t].pc = "timer" /\ isInitialized']_vars

\* The Telegram send of an onNewMessage call has failed, and the watermark
\* of the chat is the highest id reported.
C21_Witness ==
    \E t \in Tasks :
        /\ last.t = t /\ hist[t].send = "failed"
        /\ Len(out) = 1 /\ out[1].kind = "NewMessages"
        /\ out[1].id \in DOMAIN lastMessageIds
        /\ lastMessageIds[out[1].id] = Last(out[1].msgs)
        /\ task[t].pc \in {"md_msgs", "timer"}

----------------------------------------------------------------------------
\* C23: when start() has taken its baseline without error, every chat of
\* the startup chat list has a message watermark: at the step that ends the
\* product preloading and calls poll(), each chat of the list start()
\* fetched is in lastMessageIds.  (SpecRun.)  Violated: start() writes the
\* message counts to lastMessageCounts (line 619), a Map poll() never
\* reads, and leaves lastMessageIds empty.
C23_StartSeedsWatermarks ==
    [][\A t \in Tasks :
          (task[t].pc = "start_product" /\ task'[t].pc = "poll_token")
             => Range(task[t].chats) \subseteq DOMAIN lastMessageIds']_vars

----------------------------------------------------------------------------
\* The positions of start(): from its call to the call of poll().
StartPcs == {"start_token", "start_sales", "start_chats", "start_product"}

\* C24: start() calls no handler while it takes the baseline.  The call of
\* start() and every step of an activation between that call and the
\* beginning of its first poll cycle leave the handlers uncalled and throw
\* nothing, whatever the token request and the baseline fetches return,
\* failures included; the activation is then in its first poll cycle, or
\* back from poll() at once when stop() was called meanwhile.  (Spec.)
C24_StartEmitsNothing ==
    [][/\ (\E t \in Tasks : Start(t)) => out' = <<>>
       /\ \A t \in Tasks :
             (task[t].pc \in StartPcs /\ StepOf(t))
                => /\ out' = <<>>
                   /\ ~last'.threw
                   /\ task'[t].pc \in StartPcs \cup {"poll_token", "idle"}]_vars

\* start() has taken a baseline with a sale and two chats and has called
\* poll(): no handler was called.
C24_Witness ==
    \E t \in Tasks :
        /\ last.t = t /\ last.op \in {"start_chats", "start_product"}
        /\ task[t].pc = "poll_token"
        /\ lastSaleInvoiceId # Null
        /\ lastChatCount = MaxChat
        /\ out = <<>>

----------------------------------------------------------------------------
\* C25: no order is reported before the first poll cycle has finished.  A
\* step taken while isInitialized is false calls onNewOrder for nothing,
\* whatever the sales list holds; isInitialized becomes true at the end of
\* a poll cycle and at no other step, every cycle that ends leaves it true,
\* and once true it stays true.  (SpecOrders.)
C25_NoOrderBeforeFirstCycle ==
    [][/\ ~isInitialized => IdsOf(out', "NewOrder") = <<>>
       /\ (~isInitialized /\ isInitialized')
             => \E t \in Tasks : last'.t = t /\ CycleEnds(t)
       /\ \A t \in Tasks : CycleEnds(t) => isInitialized'
       /\ isInitialized => isInitialized']_vars

\* In the first poll cycle a sales list with a sale above the watermark was
\* fetched: no handler was called and the cycle went on to the chats.
C25_Witness ==
    \E t \in Tasks :
        /\ last.t = t /\ last.op = "sales"
        /\ ~isInitialized
        /\ lastSaleInvoiceId # Null
        /\ hist[t].rsp.st = "ok"
        /\ Above(hist[t].rsp.list, lastSaleInvoiceId) # {}
        /\ out = <<>>
        /\ task[t].pc = "chats"

----------------------------------------------------------------------------
\* SpecChats: one chain of cycles over chat lists of up to MaxSalesLen
\* chats (a chat is identified by the invoice id of its order, id_i), so
\* that a cycle can find two new chats; short sales and message lists,
\* failing enrichment, throwing handlers.

ChatResponses ==
    [tok        |-> BOOLEAN,
     startSales |-> SalesResponses(1..FewInvoices, StartTop),
     sales      |-> SalesResponses(1..FewInvoices, ShortLen),
     chats      |-> ListResponses(InvoiceIds, MaxSalesLen),
     msgs       |-> ListResponses(1..ShortLen, ShortLen),
     inv        |-> InvoiceFailures,
     prod       |-> ProductFailures,
     th         |-> 0..1,
     hist       |-> {"snap", "log"}]

NextChats == Step(ChatResponses)

SpecChats == Init /\ [][NextChats]_vars

\* The chats the chat-count diff takes for new in a list L fetched when
\* lastChatCount is cc: the first Len(L) - cc entries, or none.
FirstNew(L, cc) ==
    IF cc > 0 /\ Len(L) > cc THEN SubSeq(L, 1, Len(L) - cc) ELSE <<>>

\* s is a prefix of the list l that is not empty.
IsNonEmptyPrefix(s, l) ==
    s # <<>> /\ Len(s) <= Len(l) /\ s = SubSeq(l, 1, Len(s))

\* The onNewChat calls of the cycle of activation t that ends with this
\* step.  A cycle that ends at the chat-list fetch or before it fetched no
\* list or an empty one and calls nothing; one that ends in the chat passes
\* has called onNewChat for the chats FirstNew takes, in list order, once
\* each.  When gated, a cycle that a throwing handler ended in the new-chat
\* pass has called it for the first of them only, up to the chat whose
\* handler threw.
NewChatsOfCycle(t, gated) ==
    LET ids == IdsOf(hist'[t].log, "NewChat")
        new == FirstNew(task[t].chats, hist[t].c0)
    IN  IF task[t].pc \notin ChatPassPcs
        THEN ids = <<>>
        ELSE IF gated /\ task[t].pc = "nc_msgs" /\ last'.threw
             THEN IsNonEmptyPrefix(ids, new)
             ELSE ids = new

----------------------------------------------------------------------------
\* SpecNewChat: the cycles of SpecData with handlers of which the first or
\* the second call of a step throws, so that onNewMessage can throw after
\* onNewChat has returned.

MaxThrowAt == 2

NewChatResponses == [DataResponses EXCEPT !.th = 0..MaxThrowAt]

NextNewChat == Step(NewChatResponses)

SpecNewChat == Init /\ [][NextNewChat]_vars

\* The step of activation t that handles the new chat c on the response r
\* of fetchMessages: onNewChat is called first; a history that is not
\* empty is passed whole and in ascending id order to one onNewMessage call
\* and its highest id becomes the watermark of c; with no history (or a
\* failed fetch) nothing follows and the watermark becomes 0.  When gated,
\* a step in which a handler threw has called nothing after that handler,
\* has left the watermarks alone and has ended the cycle.
NewChatHandled(t, c, r, gated) ==
    LET has == r.st = "ok" /\ r.list # <<>>
    IN  /\ out' # <<>>
        /\ out'[1].kind = "NewChat" /\ out'[1].id = c
        /\ Len(out') > 1
              => /\ has
                 /\ Len(out') = 2
                 /\ out'[2].kind = "NewMessages" /\ out'[2].id = c
                 /\ Ascending(out'[2].msgs)
                 /\ Len(out'[2].msgs) = Len(r.list)
                 /\ Range(out'[2].msgs) = Range(r.list)
        /\ IF gated /\ last'.threw
           THEN /\ lastMessageIds' = lastMessageIds
                /\ task'[t].pc \notin CyclePcs
           ELSE /\ has => Len(out') = 2
                /\ c \in DOMAIN lastMessageIds'
                /\ IF has THEN IsMaxOf(lastMessageIds'[c], r.list)
                          ELSE lastMessageIds'[c] = 0
                /\ task'[t].pc \in ChatPassPcs

----------------------------------------------------------------------------
\* C28: at the end of every poll cycle that fetched its chat list,
\* lastChatCount is the length of that list, whatever failed or threw while
\* the chats were handled: a cycle that ends in one of the chat passes
\* leaves lastChatCount at the length of the list it holds.  (SpecChats.)
\* Violated: a handler that throws in the new-chat pass leaves for the catch
\* of line 571, past the assignment of line 569.
C28_ChatCountAlwaysUpdated ==
    [][\A t \in Tasks :
          (CycleEnds(t) /\ task[t].pc \in ChatPassPcs)
             => lastChatCount' = Len(task[t].chats)]_vars

----------------------------------------------------------------------------
\* The watermarks m of the chats other than c.
Others(m, c) == [d \in DOMAIN m \ {c} |-> m[d]]

\* C29: message cold start.  When the message-diff pass fetches a list that
\* is not empty for a chat that has no watermark, the chat's watermark
\* becomes the highest id of the list and no handler is called; when the
\* list is empty the watermarks are left as they were, present or absent,
\* and no handler is called.  The other chats keep their watermarks.
\* (SpecData.)
C29_MessageColdStart ==
    [][\A t \in Tasks :
          (task[t].pc = "md_msgs" /\ StepOf(t) /\ Rsp(t).st = "ok")
             => LET c == task[t].chats[task[t].i]
                    l == Rsp(t).list
                IN  /\ (l # <<>> /\ c \notin DOMAIN lastMessageIds)
                          => /\ c \in DOMAIN lastMessageIds'
                             /\ IsMaxOf(lastMessageIds'[c], l)
                             /\ Others(lastMessageIds', c)
                                   = Others(lastMessageIds, c)
                             /\ out' = <<>>
                             /\ ~last'.threw
                    /\ l = <<>>
                          => /\ lastMessageIds' = lastMessageIds
                             /\ out' = <<>>
                             /\ ~last'.threw]_vars

\* In the first cycle, which found no new chat, MaxMsg messages were fetched
\* out of order for the first chat of the list: it has the highest id as
\* its watermark, no handler was called, and the pass is at the next chat.
C29_Witness ==
    \E t \in Tasks :
        /\ last.t = t /\ last.op = "md_msgs"
        /\ ~isInitialized
        /\ task[t].pc = "md_msgs" /\ task[t].i = 2
        /\ lastChatCount = Len(task[t].chats)
        /\ hist[t].rsp.st = "ok"
        /\ Len(hist[t].rsp.list) = MaxMsg
        /\ ~Ascending(hist[t].rsp.list)
        /\ DOMAIN lastMessageIds = {task[t].chats[1]}
        /\ IsMaxOf(lastMessageIds[task[t].chats[1]], hist[t].rsp.list)
        /\ out = <<>>

----------------------------------------------------------------------------
\* C30: soft error on sales.  When the sales response has a status that is
\* not success (retval # 0) or an empty sales list, checkNewOrders calls no
\* handler, leaves lastSaleInvoiceId and invoiceCache (and every other
\* field) as they were and throws nothing, and the cycle goes on to fetch
\* the chat list.  (SpecOrders.)
C30_SoftErrorSkipsOrders ==
    [][\A t \in Tasks :
          (/\ task[t].pc = "sales" /\ StepOf(t)
           /\ \/ Rsp(t).st = "soft"
              \/ Rsp(t).st = "ok" /\ Rsp(t).list = <<>>)
             => /\ out' = <<>>
                /\ ~last'.threw
                /\ lastSaleInvoiceId' = lastSaleInvoiceId
                /\ invoiceCache' = invoiceCache
                /\ UNCHANGED <<lastChatCount, lastMessageIds, productCache,
                               isInitialized, isRunning>>
                /\ task'[t].pc = "chats"]_vars

\* An initialized monitor with a watermark got a soft error for its sales
\* list: nothing was called, and the chat list is being fetched.
C30_Witness ==
    \E t \in Tasks :
        /\ last.t = t /\ last.op = "sales" /\ ~last.threw
        /\ hist[t].rsp.st = "soft"
        /\ isInitialized /\ lastSaleInvoiceId # Null
        /\ out = <<>>
        /\ task[t].pc = "chats"

----------------------------------------------------------------------------
\* SpecFirstSale: the cycles of SpecOrders, with the sales above the
\* watermark that the first cycle found kept for the later cycles.

FirstSaleResponses == [OrderResponses EXCEPT !.hist = {"resp", "log", "first"}]

NextFirstSale == Step(FirstSaleResponses)

SpecFirstSale == Init /\ [][NextFirstSale]_vars

\* The sales list of the cycle of activation t, at a step of its order
\* pass: the response of the step at the fetch, the list held afterwards.
CycleSales(t) ==
    IF task[t].pc = "sales"
    THEN IF Rsp(t).st = "ok" THEN Rsp(t).list ELSE <<>>
    ELSE task[t].sales

\* The step ends the order pass of activation t.
OrderPassEnds(t) ==
    task[t].pc \in {"sales", "inv"} /\ StepOf(t) /\ task'[t].pc = "chats"

\* A sale above the baseline that the first cycle saw is not lost.  The
\* order pass of the first cycle, which runs while isInitialized is false,
\* reports nothing and leaves the watermark; the end of that cycle sets
\* isInitialized; and the order pass of a later cycle whose sales list holds
\* such a sale, the watermark still being below it, has passed it to
\* onNewOrder when it ends.  When gated, a pass that a throwing onNewOrder
\* ended has left the watermark, so that the sales it did not reach stay
\* above it.
FirstSaleKept(t, gated) ==
    /\ (task[t].pc = "sales" /\ StepOf(t) /\ ~isInitialized
          /\ lastSaleInvoiceId # Null)
          => /\ out' = <<>>
             /\ lastSaleInvoiceId' = lastSaleInvoiceId
             /\ task'[t].pc = "chats"
    /\ (InCycle(t) /\ StepOf(t) /\ ~isInitialized)
          => /\ lastSaleInvoiceId # Null => lastSaleInvoiceId' = lastSaleInvoiceId
             /\ CycleEnds(t) => isInitialized'
    /\ (OrderPassEnds(t) /\ isInitialized /\ lastSaleInvoiceId # Null)
          => \A s \in hist[t].pend \cap Range(CycleSales(t)) :
                s > lastSaleInvoiceId
                   => \/ s \in Range(IdsOf(hist'[t].log, "NewOrder"))
                      \/ /\ gated /\ last'.threw
                         /\ lastSaleInvoiceId' = lastSaleInvoiceId

\* C31 as stated: a sale above the startup baseline that is first seen in
\* the first poll cycle is not lost: that cycle leaves lastSaleInvoiceId,
\* and the first later cycle whose sales list holds the sale reports it by
\* onNewOrder.  (SpecFirstSale.)  Violated when onNewOrder throws for an
\* earlier sale of the batch: the pass ends before the sale is reached.
C31_AsWritten == [][\A t \in Tasks : FirstSaleKept(t, FALSE)]_vars

\* C31, amended: the first later cycle whose sales list holds the sale
\* reports it unless onNewOrder throws for an earlier sale of the batch;
\* the watermark is then left where it was and the sale stays above it for
\* the cycles that follow.  (SpecFirstSale.)
C31_FirstSaleKept == [][\A t \in Tasks : FirstSaleKept(t, TRUE)]_vars

\* A sale that the first cycle found above the baseline has been passed to
\* onNewOrder by a later cycle, and the watermark has moved up to it.
C31_Witness ==
    \E t \in Tasks :
        /\ last.t = t /\ last.op \in {"sales", "inv"} /\ ~last.threw
        /\ task[t].pc = "chats"
        /\ isInitialized
        /\ hist[t].pend # {}
        /\ \A s \in hist[t].pend : s \in Range(IdsOf(hist[t].log, "NewOrder"))
        /\ lastSaleInvoiceId \in hist[t].pend

----------------------------------------------------------------------------
\* The onNewMessage calls among the handler calls es of one cycle carry no
\* message of a chat twice: of two calls for the same chat, the later
\* carries only ids above every id of the earlier, which is above the
\* watermark the earlier call seeded.
NoMessageTwice(es) ==
    \A p, q \in DOMAIN es :
        (/\ p < q
         /\ es[p].kind = "NewMessages" /\ es[q].kind = "NewMessages"
         /\ es[p].id = es[q].id)
           => \A a \in Range(es[p].msgs), b \in Range(es[q].msgs) : a < b

\* C32: within one poll cycle a message id of a chat is carried by at most
\* one onNewMessage call: when the new-chat pass has reported the history
\* of a chat and seeded its watermark, the message-diff pass of the same
\* cycle reports for that chat only the messages above it.  (SpecRun.)
C32_NoMessageTwiceInCycle ==
    \A t \in Tasks : NoMessageTwice(hist[t].log)

\* In one cycle the new-chat pass has reported the history of a chat and the
\* message-diff pass has reported a newer message of the same chat.
C32_Witness ==
    \E t \in Tasks :
        \E p, q \in DOMAIN hist[t].log :
            /\ p < q
            /\ hist[t].log[p].kind = "NewChat"
            /\ hist[t].log[p + 1].kind = "NewMessages"
            /\ hist[t].log[q].kind = "NewMessages"
            /\ p + 1 < q
            /\ hist[t].log[p + 1].id = hist[t].log[q].id
            /\ hist[t].log[p].id = hist[t].log[q].id
            /\ lastMessageIds[hist[t].log[q].id] = Last(hist[t].log[q].msgs)

----------------------------------------------------------------------------
\* SpecCalls: start() and stop() called at any time, as in Spec, with the
\* calls that return at their guard recorded as steps.

CallResponses ==
    [Responses EXCEPT !.hist = {"noop"},
                      !.chats = {r \in @ : Ascending(r.list)},
                      !.th = {0}]

NextCalls == Step(CallResponses) \/ (Stop /\ Hist(CallResponses.hist, <<>>))

SpecCalls == Init /\ [][NextCalls]_vars

\* C33: start() called while the monitor is running, during the baseline
\* capture or later, and stop() called while it is not running change
\* nothing: the watermarks, the caches and the flags stay as they are, no
\* handler is called, and every activation stays where it is, so that no
\* cycle or timer is added and no second chain of cycles begins.
\* (SpecCalls.)
C33_GuardedCallsChangeNothing ==
    [][last'.op \in {"start_noop", "stop_noop"}
          => /\ UNCHANGED <<isRunning, isInitialized, lastChatCount,
                            lastMessageIds, productCache, invoiceCache,
                            lastSaleInvoiceId, task>>
             /\ out' = <<>>
             /\ last'.op = "start_noop" => isRunning
             /\ last'.op = "stop_noop" => ~isRunning]_vars

\* start() was called while a cycle of the running monitor was fetching
\* messages, and returned at its guard: one activation, no other chain.
C33_Witness ==
    /\ last.op = "start_noop"
    /\ isRunning /\ isInitialized
    /\ \E t \in Tasks : task[t].pc = "md_msgs"
    /\ \E t \in Tasks : task[t].pc = "idle"
    /\ lastMessageIds # EmptyMap

----------------------------------------------------------------------------
\* stop() has been called while start() was taking the baseline.
StoppedWhileStarting == ~isRunning /\ \E t \in Tasks : task[t].pc \in StartPcs

\* No poll cycle runs and no timer is pending, no handler has been called,
\* and isInitialized is false.
NothingRuns ==
    /\ \A t \in Tasks : task[t].pc \in StartPcs \cup {"idle"}
    /\ out = <<>>
    /\ ~isInitialized
    /\ ~isRunning

\* C34: when stop() is called while start() is still taking its baseline,
\* and start() is not called again, then from that moment on no poll cycle
\* runs, no handler is called, no timer is scheduled and isInitialized stays
\* false; start() goes through its remaining fetches and its call of poll()
\* returns at the guard.  (SpecFair, where start() is called once.)
C34_StopWhileStarting ==
    /\ [](StoppedWhileStarting => []NothingRuns)
    /\ StoppedWhileStarting
          ~> (NothingRuns /\ \A t \in Tasks : task[t].pc = "idle")

\* start() has finished after a stop() that came while it was fetching the
\* startup chat list: the baselines are taken, and nothing runs.
C34_Witness ==
    /\ last.op \in {"start_chats", "start_product"}
    /\ ~isRunning /\ ~isInitialized
    /\ lastChatCount > 0
    /\ \A t \in Tasks : task[t].pc = "idle"
    /\ out = <<>>

----------------------------------------------------------------------------
\* The message-diff pass of activation t goes on after chat i: to the
\* message fetch of the next chat, or to the end of the cycle after the
\* last one.
MdGoesOn(t) ==
    IF task[t].i < Len(task[t].chats)
    THEN /\ task'[t].pc = "md_msgs"
         /\ task'[t].i = task[t].i + 1
         /\ task'[t].chats = task[t].chats
    ELSE /\ task'[t].pc = "timer"
         /\ lastChatCount' = Len(task[t].chats)

\* A step of activation t in which a handler threw.  In the order pass the
\* invoice watermark is left at the value the pass began with and the
\* cycle goes on to the chats; in the message-diff pass the watermarks are
\* left and the pass goes on with the chats that remain.  In the new-chat
\* pass the watermarks are left as well; after a throw of onNewMessage (the
\* second call of the step) the pass goes on with the chats that remain,
\* or, when gated, the cycle ends there after a throw of either handler.
ThrowLeavesWatermark(t, gated) ==
    (InCycle(t) /\ StepOf(t) /\ last'.threw)
       => /\ task[t].pc \in {"sales", "inv"}
                => /\ lastSaleInvoiceId' = lastSaleInvoiceId
                   /\ task'[t].pc = "chats"
          /\ task[t].pc \in {"md_msgs", "md_product", "md_email"}
                => /\ lastMessageIds' = lastMessageIds
                   /\ task[t].chats[task[t].i] \in DOMAIN lastMessageIds
                   /\ MdGoesOn(t)
          /\ task[t].pc = "nc_msgs"
                => /\ lastMessageIds' = lastMessageIds
                   /\ IF gated
                      THEN task'[t].pc = "timer"
                      ELSE Len(out') > 1 => task'[t].pc \in ChatPassPcs

----------------------------------------------------------------------------
\* SpecConstruct: the constructor is called with any subset of the handler
\* options, and a monitor whose constructor returned is started once and
\* runs as in SpecFair.

InitConstruct ==
    /\ isRunning = FALSE
    /\ isInitialized = FALSE
    /\ lastChatCount = 0
    /\ lastMessageIds = EmptyMap
    /\ productCache = EmptyMap
    /\ invoiceCache = EmptyMap
    /\ lastSaleInvoiceId = Null
    /\ task = [t \in Tasks |-> IdleTask]
    /\ out = <<>>
    /\ last = [op |-> "none", t |-> 0, threw |-> FALSE]
    /\ hist = [t \in Tasks |-> NoHist]
    /\ instance \in [options : SUBSET HandlerOptions, state : {"unbuilt"}]
    /\ tokenCache = NoToken
    /\ now = StartTime
    /\ login = NoLogin

\* new GGSelChatMonitor(options), lines 6-28: the fields are those of Init
\* when the constructor returns; when it throws there is no monitor.
Construct ==
    /\ instance.state = "unbuilt"
    /\ instance' = Constructor(instance.options)
    /\ last' = [op |-> "new", t |-> 0, threw |-> instance'.state = "threw"]
    /\ UNCHANGED <<isRunning, isInitialized, lastChatCount, lastMessageIds,
                   productCache, invoiceCache, lastSaleInvoiceId, task, out,
                   hist, tokenCache, now, login>>

NextConstruct == Construct \/ (instance.state = "built" /\ NextFair)

SpecConstruct == InitConstruct /\ [][NextConstruct]_vars

\* C36: constructing a monitor with any of onNewOrder, onNewChat,
\* onNewMessage omitted completes without error, and a callable handler is
\* installed for each event (the one given, or a default), which the poll
\* cycle calls.  (SpecConstruct.)  Violated: for an omitted option the
\* constructor calls the default handler instead of installing it, before
\* this.logger exists, and the call throws a TypeError.
C36_DefaultsInstalled ==
    /\ instance.state # "threw"
    /\ instance.state = "built"
          => \A o \in HandlerOptions :
                Installed(o, instance.options) \in {"given", "default"}

----------------------------------------------------------------------------
\* The token module (src/unnamed/part_000): getToken and
\* makeRequestWithRetry.

\* The error codes after which makeRequestWithRetry tries again (line 29),
\* and one that is not among them.
RetryableCodes ==
    {"ETIMEDOUT", "ECONNRESET", "ECONNREFUSED", "ESOCKETTIMEDOUT",
     "ERR_REQUEST_TIMEOUT"}
OtherCodes == {"ENOTFOUND"}

\* What the callback of request() is called with (line 26): an error with
\* a code; a response that is missing or not 2xx; a 2xx response whose body
\* carries a token or none.
RequestOutcomes ==
    {[kind |-> "error", code |-> c, token |-> Null] : c \in RetryableCodes \cup OtherCodes}
    \cup {[kind |-> "status", code |-> "", token |-> Null]}
    \cup {[kind |-> "ok", code |-> "", token |-> k] : k \in Tokens \cup {Null}}

\* A mutant of Retries: every error is retried, whatever its code.
RetriesAnyError(attempt, o) == o.kind = "error" /\ attempt < MAX_RETRIES

\* makeRequestWithRetry, line 29: the request is tried again.
Retries(attempt, o) ==
    o.kind = "error" /\ attempt < MAX_RETRIES /\ o.code \in RetryableCodes

\* A mutant of CachedTokenValid: a cached token is used whatever its age.
CachedTokenValidAnyAge(c, t) == c.token # Null /\ c.timestamp # Null

\* getToken, lines 55-57: a token is cached and its age is below the
\* validity duration.
CachedTokenValid(c, t) ==
    /\ c.token # Null /\ c.timestamp # Null
    /\ t - c.timestamp < TOKEN_VALIDITY_DURATION

\* The variables of the monitor, which the token module leaves alone.
monitorVars ==
    <<isRunning, isInitialized, lastChatCount, lastMessageIds, productCache,
      invoiceCache, lastSaleInvoiceId, task, out, last, hist, instance>>

\* Time passes.
Tick ==
    /\ now < MaxTime
    /\ now' = now + 1
    /\ UNCHANGED <<monitorVars, tokenCache, login>>

\* getToken is called (lines 53-90): the cached token is returned, or the
\* login request is issued through makeRequestWithRetry.
GetToken ==
    /\ login.pc = "idle"
    /\ login' = IF CachedTokenValid(tokenCache, now)
                THEN [NoLogin EXCEPT !.res = "cached", !.ret = tokenCache.token,
                                     !.cache0 = tokenCache]
                ELSE [NoLogin EXCEPT !.pc = "request", !.attempt = 1,
                                     !.sent = 1, !.req = "pending",
                                     !.cache0 = tokenCache]
    /\ UNCHANGED <<monitorVars, tokenCache, now>>

\* The callback of request() is called with the outcome o (lines 26-48):
\* the request is tried again after RETRY_DELAY, or the promise is
\* rejected and getToken throws (lines 102-105), or it is resolved and
\* getToken caches and returns the token of the body, or throws when there
\* is none (lines 92-101).
RequestCallback(o) ==
    /\ login.pc = "request"
    /\ IF Retries(login.attempt, o)
       THEN /\ login' = [login EXCEPT !.pc = "backoff", !.outcome = o]
            /\ UNCHANGED tokenCache
       ELSE IF o.kind # "ok"
            THEN /\ login' = [login EXCEPT !.pc = "idle", !.outcome = o,
                                           !.req = "rejected", !.res = "threw"]
                 /\ UNCHANGED tokenCache
            ELSE IF o.token # Null
                 THEN /\ login' = [login EXCEPT !.pc = "idle", !.outcome = o,
                                                !.req = "resolved",
                                                !.res = "fresh", !.ret = o.token]
                      /\ tokenCache' = [token |-> o.token, timestamp |-> now]
                 ELSE /\ login' = [login EXCEPT !.pc = "idle", !.outcome = o,
                                                !.req = "resolved",
                                                !.res = "threw"]
                      /\ UNCHANGED tokenCache
    /\ UNCHANGED <<monitorVars, now>>

\* The timer of line 31 fires: makeRequestWithRetry(options, attempt + 1).
RetryTimerFire ==
    /\ login.pc = "backoff"
    /\ login' = [login EXCEPT !.pc = "request", !.attempt = @ + 1, !.sent = @ + 1]
    /\ UNCHANGED <<monitorVars, tokenCache, now>>

\* clearTokenCache (lines 109-113).
ClearTokenCache ==
    /\ tokenCache # NoToken
    /\ tokenCache' = NoToken
    /\ UNCHANGED <<monitorVars, now, login>>

\* SpecToken: getToken is called again and again while time passes; every
\* request is answered and every retry timer fires.
NextToken ==
    \/ Tick
    \/ GetToken
    \/ \E o \in RequestOutcomes : RequestCallback(o)
    \/ RetryTimerFire
    \/ ClearTokenCache

SpecToken ==
    /\ Init /\ [][NextToken]_vars
    /\ WF_vars(\E o \in RequestOutcomes : RequestCallback(o))
    /\ WF_vars(RetryTimerFire)

\* The step is one of the getToken call.
LoginStep == login' # login

\* C37: the retry of the token request is bounded.  One call of
\* makeRequestWithRetry issues at most MAX_RETRIES requests; a request is
\* issued again only after the timer that follows an error with one of the
\* listed codes, on an attempt below MAX_RETRIES; a response that is not
\* 2xx, an error with another code and an error on the last attempt reject
\* at once; and every call ends with its promise resolved or rejected.
\* (SpecToken.)
C37_RetryBounded ==
    /\ [](login.sent <= MAX_RETRIES /\ login.attempt = login.sent)
    /\ [][(login.pc = "request" /\ LoginStep)
             => LET o == login'.outcome
                IN  /\ login'.sent = login.sent
                    /\ login'.pc = "backoff"
                          <=> /\ o.kind = "error"
                              /\ o.code \in RetryableCodes
                              /\ login.sent < MAX_RETRIES
                    /\ login'.pc # "backoff"
                          => /\ login'.pc = "idle"
                             /\ login'.req = IF o.kind = "ok" THEN "resolved"
                                                              ELSE "rejected"]_vars
    /\ [][login'.sent > login.sent
             => /\ login'.sent = login.sent + 1
                /\ login.pc = "backoff" \/ (login.pc = "idle" /\ login'.sent = 1)]_vars
    /\ [](login.req = "pending" => <>(login.req \in {"resolved", "rejected"}))

\* A call has been rejected after MAX_RETRIES requests that all timed out.
C37_Witness ==
    /\ login.pc = "idle"
    /\ login.req = "rejected"
    /\ login.sent = MAX_RETRIES
    /\ login.outcome.kind = "error"
    /\ login.outcome.code \in RetryableCodes

----------------------------------------------------------------------------
\* C38: the token cache.  getToken returns the cached token and issues no
\* request whenever a token is cached and its age is below the validity
\* duration; otherwise it issues a login request.  The token and the
\* timestamp of the cache are replaced only when the response carries a
\* token, which is then returned; when the request fails or the response
\* has no token the cache is left as it was and getToken throws.
\* (SpecToken.)
C38_TokenCache ==
    [][/\ (login.pc = "idle" /\ LoginStep)
             => /\ tokenCache' = tokenCache
                /\ IF /\ tokenCache.token # Null
                      /\ now - tokenCache.timestamp < TOKEN_VALIDITY_DURATION
                   THEN /\ login'.pc = "idle" /\ login'.res = "cached"
                        /\ login'.ret = tokenCache.token
                        /\ login'.sent = 0
                   ELSE /\ login'.pc = "request" /\ login'.sent = 1
       /\ (login.pc \in {"request", "backoff"} /\ LoginStep)
             => LET o == login'.outcome
                IN  IF login'.pc = "idle" /\ o.kind = "ok" /\ o.token # Null
                    THEN /\ tokenCache' = [token |-> o.token, timestamp |-> now]
                         /\ login'.res = "fresh" /\ login'.ret = o.token
                    ELSE /\ tokenCache' = tokenCache
                         /\ login'.pc = "idle" => login'.res = "threw"]_vars

\* getToken has returned the cached token, at the last moment of its
\* validity, without a request.
C38_Witness ==
    /\ login.pc = "idle" /\ login.res = "cached" /\ login.sent = 0
    /\ tokenCache.token # Null
    /\ login.ret = tokenCache.token
    /\ now - tokenCache.timestamp = TOKEN_VALIDITY_DURATION - 1

====
